---- MODULE Spec2Model ----
(***************************************************************************)
(* A model of the zzzzzzzzzzz transaction engine: the fixed-point amount   *)
(* (common/zz_amount.rs), the transaction state machine                    *)
(* (domain/transaction.rs), the client balance (domain/client_balance.rs)  *)
(* and the streaming csv pipeline (parsers/csv_parser.rs).                 *)
(*                                                                         *)
(* Three specifications share the variables:                               *)
(*   Spec       the pipeline at the level of parsed records (process_tx), *)
(*   SpecAmt    the amount arithmetic as pure functions of drawn inputs,   *)
(*   SpecStream the chunked reader over concrete byte streams.             *)
(***************************************************************************)
EXTENDS Integers, Sequences, FiniteSets, TLC

\* ------------------------------------------------------------------ bounds

\* Rows dispatched in one run of Spec.
MaxRows == 6

\* Largest integer part drawn for an amount in SpecAmt.
MaxInt == 2

\* Operations applied in one run of SpecAmt.
MaxOps == 2

\* ------------------------------------------------------------ Option<T>

None == <<>>

Some(x) == <<x>>

IsSome(o) == o # <<>>

Unwrap(o) == o[1]

Range(s) == {s[k] : k \in DOMAIN s}

\* ------------------------------------------------- common/zz_amount.rs

\* ZzAmount { integer, decimal }
ZzAmount(i, d) == [integer |-> i, decimal |-> d]

\* validate_inner with the range 0..=10000
validate_inner_inclusive(decimal) == decimal >= 0 /\ decimal <= 10000

validate_inner(decimal) == decimal >= 0 /\ decimal < 10000

validate(self) == validate_inner(self.decimal)

new(integer, decimal) ==
    IF validate_inner(decimal) THEN Some(ZzAmount(integer, decimal)) ELSE None

to_i_amount(self) == ZzAmount(self.integer, self.decimal)

zero == ZzAmount(0, 0)

\* add with the carry into the integer part forgotten
add_no_carry(self, other) ==
    LET d == self.decimal + other.decimal
    IN  IF validate_inner(d)
        THEN ZzAmount(self.integer + other.integer, d)
        ELSE ZzAmount(self.integer + other.integer, d - 10000)

\* add without the reduction of the fractional units
add_no_reduction(self, other) ==
    ZzAmount(self.integer + other.integer, self.decimal + other.decimal)

add(self, other) ==
    LET d == self.decimal + other.decimal
    IN  IF validate_inner(d)
        THEN ZzAmount(self.integer + other.integer, d)
        ELSE ZzAmount(self.integer + (other.integer + 1), d - 10000)

\* sub with the borrow of the integer part forgotten
sub_no_borrow(self, other) ==
    IF self.decimal < other.decimal
    THEN ZzAmount(self.integer - other.integer,
                  self.decimal + (10000 - other.decimal))
    ELSE ZzAmount(self.integer - other.integer, self.decimal - other.decimal)

sub(self, other) ==
    IF self.decimal < other.decimal
    THEN ZzAmount(self.integer - (other.integer + 1),
                  self.decimal + (10000 - other.decimal))
    ELSE ZzAmount(self.integer - other.integer, self.decimal - other.decimal)

greater_eq_than(self, other) ==
    IF self.integer >= 0
    THEN \/ self.integer >= other.integer
         \/ (self.integer = other.integer /\ self.decimal >= other.decimal)
    ELSE FALSE

\* Display: "{integer}" when decimal = 0, else "{integer}.{decimal:0>4}",
\* as a sequence of one-character strings.
DigitChar(d) == <<"0", "1", "2", "3", "4", "5", "6", "7", "8", "9">>[d + 1]

RECURSIVE NatToStr(_)
NatToStr(n) ==
    IF n < 10 THEN <<DigitChar(n)>>
    ELSE NatToStr(n \div 10) \o <<DigitChar(n % 10)>>

IntToStr(i) == IF i < 0 THEN <<"-">> \o NatToStr(-i) ELSE NatToStr(i)

\* "{:0>4}" without the padding
PadLeft4_none(s) == s

PadLeft4(s) == IF Len(s) >= 4 THEN s ELSE [k \in 1..(4 - Len(s)) |-> "0"] \o s

Display(self) ==
    IF self.decimal = 0 THEN IntToStr(self.integer)
    ELSE IntToStr(self.integer) \o <<".">> \o PadLeft4(NatToStr(self.decimal))

\* The decimal number a rendered amount denotes, in units of 0.0001: the
\* sign, the digits before the '.', and the four digits after it.
RECURSIVE DigitsToNat(_)
DigitsToNat(s) ==
    IF s = <<>> THEN 0
    ELSE 10 * DigitsToNat(SubSeq(s, 1, Len(s) - 1))
         + (CHOOSE d \in 0..9 : DigitChar(d) = s[Len(s)])

RenderedValue(text) ==
    LET neg  == text[1] = "-"
        body == IF neg THEN Tail(text) ELSE text
        dots == {k \in 1..Len(body) : body[k] = "."}
        int  == IF dots = {} THEN body
                ELSE SubSeq(body, 1, (CHOOSE k \in dots : TRUE) - 1)
        frac == IF dots = {} THEN <<"0", "0", "0", "0">>
                ELSE SubSeq(body, (CHOOSE k \in dots : TRUE) + 1, Len(body))
        mag  == DigitsToNat(int) * 10000 + DigitsToNat(frac)
    IN  IF neg THEN 0 - mag ELSE mag

\* ------------------------------------------------ domain/transaction.rs

\* The inputs of Spec: client ids, transaction ids and amounts of records.
ClientIds == {1, 2}

TxIds == {1, 2, 3}

\* The transaction ids the records of a client use: three for client 1 (a
\* deposit, a withdrawal and one more record), one for client 2.
TxIdsOf(c) == IF c = 1 THEN TxIds ELSE {1}

Amounts == {ZzAmount(1, 5000), ZzAmount(0, 5000)}

\* ZzTxType
Withdrawal(amount) == [kind |-> "Withdrawal", amount |-> amount]

Deposit(amount) == [kind |-> "Deposit", amount |-> amount]

Dispute == [kind |-> "Dispute"]

Resolve == [kind |-> "Resolve"]

Chargeback == [kind |-> "Chargeback"]

ZzTxTypes ==
    {Withdrawal(a) : a \in Amounts} \cup {Deposit(a) : a \in Amounts}
    \cup {Dispute, Resolve, Chargeback}

\* ZzTx { type, client_id, tx_id }
ZzTx(type, client_id, tx_id) ==
    [type |-> type, client_id |-> client_id, tx_id |-> tx_id]

ZzTxs ==
    UNION {{ZzTx(ty, c, t) : ty \in ZzTxTypes, t \in TxIdsOf(c)} : c \in ClientIds}

\* TransactionState
StDeposit(amount) == [kind |-> "Deposit", amount |-> amount]

StWithdrawal == [kind |-> "Withdrawal"]

StDispute(amount) == [kind |-> "Dispute", amount |-> amount]

StLocked == [kind |-> "Locked"]

\* ZzTxEffect { amount, available, held, locked }
ZzTxEffect(amount, available, held, locked) ==
    [amount |-> amount, available |-> available, held |-> held,
     locked |-> locked]

\* produce_effect that accepts a Dispute of a key without an entry
produce_effect_dispute_unknown(cur, tx, balance) ==
    LET balance_available ==
            IF IsSome(balance) THEN Some(Unwrap(balance).available) ELSE None
    IN  IF IsSome(cur)
        THEN LET st == Unwrap(cur)
             IN  CASE st.kind = "Deposit" /\ tx.type.kind = "Dispute" ->
                        Some(<<StDispute(st.amount),
                               ZzTxEffect(st.amount, Some(FALSE), Some(TRUE), FALSE)>>)
                   [] st.kind = "Dispute" /\ tx.type.kind = "Resolve" ->
                        Some(<<StDeposit(st.amount),
                               ZzTxEffect(st.amount, Some(TRUE), Some(FALSE), FALSE)>>)
                   [] st.kind = "Dispute" /\ tx.type.kind = "Chargeback" ->
                        Some(<<StLocked,
                               ZzTxEffect(st.amount, None, Some(FALSE), TRUE)>>)
                   [] OTHER -> None
        ELSE CASE tx.type.kind = "Withdrawal" ->
                    IF /\ IsSome(balance_available)
                       /\ greater_eq_than(Unwrap(balance_available), tx.type.amount)
                    THEN Some(<<StWithdrawal,
                                ZzTxEffect(tx.type.amount, Some(FALSE), None, FALSE)>>)
                    ELSE None
               [] tx.type.kind = "Deposit" ->
                    Some(<<StDeposit(tx.type.amount),
                           ZzTxEffect(tx.type.amount, Some(TRUE), None, FALSE)>>)
               [] tx.type.kind = "Dispute" ->
                    Some(<<StDispute(zero),
                           ZzTxEffect(zero, Some(FALSE), Some(TRUE), FALSE)>>)
               [] OTHER -> None

\* produce_effect that takes a Deposit under a key that holds a Deposit as a
\* new one
produce_effect_deposit_again(cur, tx, balance) ==
    LET balance_available ==
            IF IsSome(balance) THEN Some(Unwrap(balance).available) ELSE None
    IN  IF IsSome(cur)
        THEN LET st == Unwrap(cur)
             IN  CASE st.kind = "Deposit" /\ tx.type.kind = "Dispute" ->
                        Some(<<StDispute(st.amount),
                               ZzTxEffect(st.amount, Some(FALSE), Some(TRUE), FALSE)>>)
                   [] st.kind = "Dispute" /\ tx.type.kind = "Resolve" ->
                        Some(<<StDeposit(st.amount),
                               ZzTxEffect(st.amount, Some(TRUE), Some(FALSE), FALSE)>>)
                   [] st.kind = "Dispute" /\ tx.type.kind = "Chargeback" ->
                        Some(<<StLocked,
                               ZzTxEffect(st.amount, None, Some(FALSE), TRUE)>>)
                   [] st.kind = "Deposit" /\ tx.type.kind = "Deposit" ->
                        Some(<<StDeposit(tx.type.amount),
                               ZzTxEffect(tx.type.amount, Some(TRUE), None, FALSE)>>)
                   [] OTHER -> None
        ELSE CASE tx.type.kind = "Withdrawal" ->
                    IF /\ IsSome(balance_available)
                       /\ greater_eq_than(Unwrap(balance_available), tx.type.amount)
                    THEN Some(<<StWithdrawal,
                                ZzTxEffect(tx.type.amount, Some(FALSE), None, FALSE)>>)
                    ELSE None
               [] tx.type.kind = "Deposit" ->
                    Some(<<StDeposit(tx.type.amount),
                           ZzTxEffect(tx.type.amount, Some(TRUE), None, FALSE)>>)
               [] OTHER -> None

\* The result of produce_effect: Some((state, effect)) or None.
produce_effect(cur, tx, balance) ==
    LET balance_available ==
            IF IsSome(balance) THEN Some(Unwrap(balance).available) ELSE None
    IN  IF IsSome(cur)
        THEN LET st == Unwrap(cur)
             IN  CASE st.kind = "Deposit" /\ tx.type.kind = "Dispute" ->
                        Some(<<StDispute(st.amount),
                               ZzTxEffect(st.amount, Some(FALSE), Some(TRUE), FALSE)>>)
                   [] st.kind = "Dispute" /\ tx.type.kind = "Resolve" ->
                        Some(<<StDeposit(st.amount),
                               ZzTxEffect(st.amount, Some(TRUE), Some(FALSE), FALSE)>>)
                   [] st.kind = "Dispute" /\ tx.type.kind = "Chargeback" ->
                        Some(<<StLocked,
                               ZzTxEffect(st.amount, None, Some(FALSE), TRUE)>>)
                   [] OTHER -> None
        ELSE CASE tx.type.kind = "Withdrawal" ->
                    IF /\ IsSome(balance_available)
                       /\ greater_eq_than(Unwrap(balance_available), tx.type.amount)
                    THEN Some(<<StWithdrawal,
                                ZzTxEffect(tx.type.amount, Some(FALSE), None, FALSE)>>)
                    ELSE None
               [] tx.type.kind = "Deposit" ->
                    Some(<<StDeposit(tx.type.amount),
                           ZzTxEffect(tx.type.amount, Some(TRUE), None, FALSE)>>)
               [] OTHER -> None

\* a lookup that matches the transaction id alone
map_get_any_client(map, client_id, tx_id) ==
    IF IsSome(map[<<client_id, tx_id>>]) THEN map[<<client_id, tx_id>>]
    ELSE IF \E c \in ClientIds : IsSome(map[<<c, tx_id>>])
         THEN map[<<CHOOSE c \in ClientIds : IsSome(map[<<c, tx_id>>]), tx_id>>]
         ELSE None

\* insert_transaction that returns the effect and forgets the entry
insert_transaction_no_entry(map, tx, balance) ==
    LET r == produce_effect(map[<<tx.client_id, tx.tx_id>>], tx, balance)
    IN  IF IsSome(r) THEN [map |-> map, effect |-> Some(Unwrap(r)[2])]
        ELSE [map |-> map, effect |-> None]

\* insert_transaction over a map keyed by the transaction id alone
insert_transaction_by_tx_id(map, tx, balance) ==
    LET r == produce_effect(map[<<tx.client_id, tx.tx_id>>], tx, balance)
    IN  IF IsSome(r)
        THEN [map |-> [k \in DOMAIN map |->
                         IF k[2] = tx.tx_id THEN Some(Unwrap(r)[1]) ELSE map[k]],
              effect |-> Some(Unwrap(r)[2])]
        ELSE [map |-> map, effect |-> None]

\* insert_transaction that records a rejected withdrawal under its key
insert_transaction_rejected_kept(map, tx, balance) ==
    LET r == produce_effect(map[<<tx.client_id, tx.tx_id>>], tx, balance)
    IN  IF IsSome(r)
        THEN [map |-> [map EXCEPT ![<<tx.client_id, tx.tx_id>>] = Some(Unwrap(r)[1])],
              effect |-> Some(Unwrap(r)[2])]
        ELSE IF tx.type.kind = "Withdrawal" /\ ~IsSome(map[<<tx.client_id, tx.tx_id>>])
        THEN [map |-> [map EXCEPT ![<<tx.client_id, tx.tx_id>>] = Some(StWithdrawal)],
              effect |-> None]
        ELSE [map |-> map, effect |-> None]

\* insert_transaction that removes the entry a Chargeback has closed
insert_transaction_closed_removed(map, tx, balance) ==
    LET r == produce_effect(map[<<tx.client_id, tx.tx_id>>], tx, balance)
    IN  IF IsSome(r)
        THEN [map |-> [map EXCEPT ![<<tx.client_id, tx.tx_id>>] =
                          IF Unwrap(r)[1] = StLocked THEN None
                          ELSE Some(Unwrap(r)[1])],
              effect |-> Some(Unwrap(r)[2])]
        ELSE [map |-> map, effect |-> None]

\* HashMap::get with the key (client_id, tx_id)
map_get(map, client_id, tx_id) == map[<<client_id, tx_id>>]

\* TransactionHashMapImpl::insert_transaction: the map after the call and the
\* effect returned.
insert_transaction(map, tx, balance) ==
    LET r == produce_effect(map_get(map, tx.client_id, tx.tx_id), tx, balance)
    IN  IF IsSome(r)
        THEN [map |-> [map EXCEPT ![<<tx.client_id, tx.tx_id>>] = Some(Unwrap(r)[1])],
              effect |-> Some(Unwrap(r)[2])]
        ELSE [map |-> map, effect |-> None]

\* ---------------------------------------------- domain/client_balance.rs

ZzClientBalance(client_id, available, held, total, locked) ==
    [client_id |-> client_id, available |-> available, held |-> held,
     total |-> total, locked |-> locked]

apply(b, cur, other) == IF b THEN add(cur, other) ELSE sub(cur, other)

\* process_tx_effect without its assertion
process_tx_effect_no_assert(self, effect) ==
    LET amount == to_i_amount(effect.amount)
        av == IF IsSome(effect.available)
              THEN apply(Unwrap(effect.available), self.available, amount)
              ELSE self.available
        he == IF IsSome(effect.held)
              THEN apply(Unwrap(effect.held), self.held, amount)
              ELSE self.held
    IN  [panic |-> FALSE,
         balance |-> [self EXCEPT !.available = av, !.held = he,
                                  !.locked = self.locked \/ effect.locked]]

\* process_tx_effect that drops the effect's locked flag
process_tx_effect_no_lock(self, effect) ==
    IF self.locked
    THEN [panic |-> TRUE, balance |-> self]
    ELSE LET amount == to_i_amount(effect.amount)
             av == IF IsSome(effect.available)
                   THEN apply(Unwrap(effect.available), self.available, amount)
                   ELSE self.available
             he == IF IsSome(effect.held)
                   THEN apply(Unwrap(effect.held), self.held, amount)
                   ELSE self.held
         IN  [panic |-> FALSE,
              balance |-> [self EXCEPT !.available = av, !.held = he]]

\* process_tx_effect that locks the balance whenever held is released
process_tx_effect_lock_on_release(self, effect) ==
    IF self.locked
    THEN [panic |-> TRUE, balance |-> self]
    ELSE LET amount == to_i_amount(effect.amount)
             av == IF IsSome(effect.available)
                   THEN apply(Unwrap(effect.available), self.available, amount)
                   ELSE self.available
             he == IF IsSome(effect.held)
                   THEN apply(Unwrap(effect.held), self.held, amount)
                   ELSE self.held
         IN  [panic |-> FALSE,
              balance |-> [self EXCEPT !.available = av, !.held = he,
                                       !.locked = \/ self.locked
                                                  \/ effect.locked
                                                  \/ effect.held = Some(FALSE)]]

\* process_tx_effect that keeps total up to date with every effect
process_tx_effect_running_total(self, effect) ==
    IF self.locked
    THEN [panic |-> TRUE, balance |-> self]
    ELSE LET amount == to_i_amount(effect.amount)
             av == IF IsSome(effect.available)
                   THEN apply(Unwrap(effect.available), self.available, amount)
                   ELSE self.available
             he == IF IsSome(effect.held)
                   THEN apply(Unwrap(effect.held), self.held, amount)
                   ELSE self.held
         IN  [panic |-> FALSE,
              balance |-> [self EXCEPT !.available = av, !.held = he,
                                       !.total = add(av, he),
                                       !.locked = self.locked \/ effect.locked]]

\* process_tx_effect that leaves held as it is when the effect locks
process_tx_effect_held_kept(self, effect) ==
    IF self.locked
    THEN [panic |-> TRUE, balance |-> self]
    ELSE LET amount == to_i_amount(effect.amount)
             av == IF IsSome(effect.available)
                   THEN apply(Unwrap(effect.available), self.available, amount)
                   ELSE self.available
             he == IF IsSome(effect.held) /\ ~effect.locked
                   THEN apply(Unwrap(effect.held), self.held, amount)
                   ELSE self.held
         IN  [panic |-> FALSE,
              balance |-> [self EXCEPT !.available = av, !.held = he,
                                       !.locked = self.locked \/ effect.locked]]

\* process_tx_effect: panics on a locked balance before anything is changed.
process_tx_effect(self, effect) ==
    IF self.locked
    THEN [panic |-> TRUE, balance |-> self]
    ELSE LET amount == to_i_amount(effect.amount)
             av == IF IsSome(effect.available)
                   THEN apply(Unwrap(effect.available), self.available, amount)
                   ELSE self.available
             he == IF IsSome(effect.held)
                   THEN apply(Unwrap(effect.held), self.held, amount)
                   ELSE self.held
         IN  [panic |-> FALSE,
              balance |-> [self EXCEPT !.available = av, !.held = he,
                                       !.locked = self.locked \/ effect.locked]]

compute_total(self) == [self EXCEPT !.total = add(self.available, self.held)]

\* ------------------------------------------------------------ lib.rs

\* ParsingStrictnessOptions
Fail == "Fail"

Allow == "Allow"

Ignore == "Ignore"

\* ZzParseOptions { zz_amount_max_size, on_missing_field, on_excessive_field,
\* on_parse_error, max_line_width } and the dont_trim_spaces flag read by
\* wrap_field.
ZzParseOptions(max_size, missing, excessive, parse_error, width) ==
    [zz_amount_max_size |-> max_size, on_missing_field |-> missing,
     on_excessive_field |-> excessive, on_parse_error |-> parse_error,
     max_line_width |-> width, dont_trim_spaces |-> FALSE]

\* impl Default for ZzParseOptions
DefaultOptions == ZzParseOptions(200, Fail, Fail, Fail, 4096)

\* ------------------------------------------------------- text as sequences

\* A text is a sequence of one-character strings.
NL == "\n"

Comma == ","

Digits == {"0", "1", "2", "3", "4", "5", "6", "7", "8", "9"}

\* nom's multispace: space, tab, carriage return, line feed
Spaces == {" ", "\t", "\r", "\n"}

\* The length of the longest prefix of s made of characters of set.
PrefixLen(s, set) ==
    LET bad == {k \in 1..Len(s) : s[k] \notin set}
    IN  IF bad = {} THEN Len(s)
        ELSE (CHOOSE k \in bad : \A j \in bad : k <= j) - 1

DropFirst(s, n) == SubSeq(s, n + 1, Len(s))

StartsWith(s, t) == Len(s) >= Len(t) /\ SubSeq(s, 1, Len(t)) = t

\* A parser's success: the value and the remaining input.
Ok(val, rest) == Some([val |-> val, rest |-> rest])

\* ---------------------------------------------- parsers/nom/zz_amount.rs

StripZeros(ds) == DropFirst(ds, PrefixLen(ds, {"0"}))

\* the conversion without the padding of a short fraction
FractionUnits_as_is(d) ==
    IF Len(d) >= 4 THEN DigitsToNat(SubSeq(d, 1, 4)) ELSE DigitsToNat(d)

\* the conversion that rounds on the fifth digit, up to 9999
FractionUnits_rounded(d) ==
    IF Len(d) >= 5 /\ d[5] \in {"5", "6", "7", "8", "9"}
                  /\ DigitsToNat(SubSeq(d, 1, 4)) < 9999
    THEN DigitsToNat(SubSeq(d, 1, 4)) + 1
    ELSE IF Len(d) >= 4 THEN DigitsToNat(SubSeq(d, 1, 4))
    ELSE DigitsToNat(d \o [k \in 1..(4 - Len(d)) |-> "0"])

\* d.split_at_checked(4) or format!("{d:0<4}"), then parse
FractionUnits(d) ==
    IF Len(d) >= 4 THEN DigitsToNat(SubSeq(d, 1, 4))
    ELSE DigitsToNat(d \o [k \in 1..(4 - Len(d)) |-> "0"])

\* opt(one_of("+-")): the sign character, "" when there is none
amount_sign(input) ==
    IF input # <<>> /\ input[1] \in {"+", "-"} THEN input[1] ELSE ""

\* take_while_m_n(1, zz_amount_max_size + 1, is_digit): the number of digits
\* taken
amount_int_len(parse_options, input) ==
    IF PrefixLen(input, Digits) > parse_options.zz_amount_max_size + 1
    THEN parse_options.zz_amount_max_size + 1
    ELSE PrefixLen(input, Digits)

\* opt(preceded(char('.'), digit1)) and the conversion of the digits to
\* ten-thousandths: the units and the remaining input
amount_fraction(input) ==
    IF Len(input) >= 2 /\ input[1] = "." /\ input[2] \in Digits
    THEN [val |-> FractionUnits(SubSeq(input, 2,
                                       PrefixLen(Tail(input), Digits) + 1)),
          rest |-> DropFirst(input, PrefixLen(Tail(input), Digits) + 1)]
    ELSE [val |-> 0, rest |-> input]

amount_value(sign, int, frac) ==
    Ok([integer |-> IF sign = "-" THEN 0 - int ELSE int, decimal |-> frac.val],
       frac.rest)

\* the checks on the integer digits and on the sign, then the value
amount_checked(parse_options, sign, input, n, signed) ==
    IF n = 0 THEN None
    ELSE IF n > parse_options.zz_amount_max_size THEN None
    ELSE IF sign = "-" /\ ~signed THEN None
    ELSE amount_value(sign, DigitsToNat(StripZeros(SubSeq(input, 1, n))),
                      amount_fraction(DropFirst(input, n)))

amount_signed(parse_options, sign, input, signed) ==
    amount_checked(parse_options, sign, input,
                   amount_int_len(parse_options, input), signed)

\* parse_zzamount_inner for BigUint (signed = FALSE) or BigInt: the amount
\* and the remaining input; None for an Error or a Failure.
parse_zzamount_inner(parse_options, initial_input, signed) ==
    amount_signed(parse_options, amount_sign(initial_input),
                  IF amount_sign(initial_input) = "" THEN initial_input
                  ELSE Tail(initial_input),
                  signed)

\* ZzUAmount::new on the parsed parts
amount_new(r) ==
    IF IsSome(r)
    THEN Ok(Unwrap(new(Unwrap(r).val.integer, Unwrap(r).val.decimal)),
            Unwrap(r).rest)
    ELSE None

parse_zzamount_u(parse_options, initial_input) ==
    amount_new(parse_zzamount_inner(parse_options, initial_input, FALSE))

parse_zzamount_i(parse_options, initial_input) ==
    amount_new(parse_zzamount_inner(parse_options, initial_input, TRUE))

\* ---------------------------------------------- parsers/nom/tx_parser.rs

tag(t, input) ==
    IF StartsWith(input, t) THEN Ok(t, DropFirst(input, Len(t))) ELSE None

digit1(input) ==
    LET n == PrefixLen(input, Digits)
    IN  IF n = 0 THEN None ELSE Ok(SubSeq(input, 1, n), DropFirst(input, n))

multispace0(input) == DropFirst(input, PrefixLen(input, Spaces))

\* multispace0 unless dont_trim_spaces
trim_spaces(parse_options, input) ==
    IF parse_options.dont_trim_spaces THEN input ELSE multispace0(input)

\* alt((tag(","), eof)) after the field
field_end(res, input) ==
    IF input = <<>> THEN Ok(res, <<>>)
    ELSE IF input[1] = Comma THEN Ok(res, Tail(input))
    ELSE None

\* opt(parser): r is the field parser's result on input
field_opt(parse_options, r, input) ==
    IF IsSome(r)
    THEN field_end(Some(Unwrap(r).val), trim_spaces(parse_options, Unwrap(r).rest))
    ELSE field_end(None, trim_spaces(parse_options, input))

\* wrap_field: spaces, the optional field, spaces, then ',' or the end of
\* input.  r is the result of the field's parser on the input after the
\* leading spaces.  None is an Err.
wrap_field(r, parse_options, input) ==
    field_opt(parse_options, r, trim_spaces(parse_options, input))

W_type == <<"t", "y", "p", "e">>

W_client == <<"c", "l", "i", "e", "n", "t">>

W_tx == <<"t", "x">>

W_amount == <<"a", "m", "o", "u", "n", "t">>

W_deposit == <<"d", "e", "p", "o", "s", "i", "t">>

W_withdrawal == <<"w", "i", "t", "h", "d", "r", "a", "w", "a", "l">>

W_dispute == <<"d", "i", "s", "p", "u", "t", "e">>

W_resolve == <<"r", "e", "s", "o", "l", "v", "e">>

W_chargeback == <<"c", "h", "a", "r", "g", "e", "b", "a", "c", "k">>

tag_type(input) == tag(W_type, input)

tag_client(input) == tag(W_client, input)

tag_tx(input) == tag(W_tx, input)

tag_amount(input) == tag(W_amount, input)

header_amount(parse_options, f3) ==
    IsSome(f3) /\ IsSome(wrap_field(tag_amount(trim_spaces(parse_options, Unwrap(f3).rest)),
                                    parse_options, Unwrap(f3).rest))

header_tx(parse_options, f2) ==
    /\ IsSome(f2)
    /\ header_amount(parse_options,
                     wrap_field(tag_tx(trim_spaces(parse_options, Unwrap(f2).rest)),
                                parse_options, Unwrap(f2).rest))

header_client(parse_options, f1) ==
    /\ IsSome(f1)
    /\ header_tx(parse_options,
                 wrap_field(tag_client(trim_spaces(parse_options, Unwrap(f1).rest)),
                            parse_options, Unwrap(f1).rest))

\* parse_zztx_csv_headers(...).is_ok()
parse_zztx_csv_headers(parse_options, input) ==
    header_client(parse_options, wrap_field(tag_type(trim_spaces(parse_options, input)),
                                            parse_options, input))

\* alt((tag("deposit"), tag("withdrawal"), tag("dispute"), tag("resolve"),
\* tag("chargeback")))
tx_type_tags(input) ==
    IF IsSome(tag(W_deposit, input)) THEN tag(W_deposit, input)
    ELSE IF IsSome(tag(W_withdrawal, input)) THEN tag(W_withdrawal, input)
    ELSE IF IsSome(tag(W_dispute, input)) THEN tag(W_dispute, input)
    ELSE IF IsSome(tag(W_resolve, input)) THEN tag(W_resolve, input)
    ELSE tag(W_chargeback, input)

\* str::parse for an unsigned type of largest value `max` (a text of
\* digits), on the digits ds without their leading zeros; the model's
\* integers hold a value below 2^31.
parse_bounded(ds, max, rest) ==
    IF \/ Len(ds) > Len(max)
       \/ /\ Len(ds) = Len(max)
          /\ \E k \in 1..Len(ds) :
               /\ SubSeq(ds, 1, k - 1) = SubSeq(max, 1, k - 1)
               /\ DigitsToNat(<<ds[k]>>) > DigitsToNat(<<max[k]>>)
    THEN None
    ELSE Ok(DigitsToNat(ds), rest)

parse_digits(r, max) ==
    IF IsSome(r) THEN parse_bounded(StripZeros(Unwrap(r).val), max, Unwrap(r).rest)
    ELSE None

\* map_res(digit1, str::parse)
parse_unsigned(input, max) == parse_digits(digit1(input), max)

parse_u16(input) == parse_unsigned(input, <<"6", "5", "5", "3", "5">>)

parse_u32(input) ==
    parse_unsigned(input, <<"4", "2", "9", "4", "9", "6", "7", "2", "9", "5">>)

Parsed(zztx) == [kind |-> "Parsed", zztx |-> Some(zztx)]

Failed == [kind |-> "Failed", zztx |-> None]

MissingRequiredField == [kind |-> "MissingRequiredField", zztx |-> None]

ContainsExcessiveFields(zztx) ==
    [kind |-> "ContainsExcessiveFields", zztx |-> Some(zztx)]

\* recognize((digit1, opt((char('.'), digit1)))): the length recognized,
\* 0 when digit1 fails
recognize_amount(input) ==
    LET n == PrefixLen(input, Digits)
    IN  IF n = 0 THEN 0
        ELSE IF /\ Len(input) >= n + 2
                /\ input[n + 1] = "."
                /\ input[n + 2] \in Digits
             THEN n + 1 + PrefixLen(DropFirst(input, n + 1), Digits)
             ELSE n

\* map_res(.., |s| parse_zzamount_u(parse_options, s)) on what was recognized
recognized_amount(amt, rest) ==
    IF IsSome(amt) THEN Ok(Unwrap(amt).val, rest) ELSE None

zz_amount_of(parse_options, input, n) ==
    IF n = 0 THEN None
    ELSE recognized_amount(parse_zzamount_u(parse_options, SubSeq(input, 1, n)),
                           DropFirst(input, n))

\* zz_amount_parser's field
zz_amount_parser(parse_options, input) ==
    zz_amount_of(parse_options, input, recognize_amount(input))

\* row_result with the amount of a dispute, resolve or chargeback row dropped
\* silently
row_result_excess_parsed(ty, client_id, tx_id, zz_amount) ==
    CASE ty = W_deposit /\ IsSome(zz_amount) ->
            Parsed(ZzTx(Deposit(Unwrap(zz_amount)), client_id, tx_id))
      [] ty = W_withdrawal /\ IsSome(zz_amount) ->
            Parsed(ZzTx(Withdrawal(Unwrap(zz_amount)), client_id, tx_id))
      [] ty = W_dispute -> Parsed(ZzTx(Dispute, client_id, tx_id))
      [] ty = W_resolve -> Parsed(ZzTx(Resolve, client_id, tx_id))
      [] ty = W_chargeback -> Parsed(ZzTx(Chargeback, client_id, tx_id))
      [] OTHER -> MissingRequiredField

\* the match on (tx_type_str, zz_amount)
row_result(ty, client_id, tx_id, zz_amount) ==
    IF IsSome(zz_amount)
    THEN CASE ty = W_deposit ->
                Parsed(ZzTx(Deposit(Unwrap(zz_amount)), client_id, tx_id))
           [] ty = W_withdrawal ->
                Parsed(ZzTx(Withdrawal(Unwrap(zz_amount)), client_id, tx_id))
           [] ty = W_dispute ->
                ContainsExcessiveFields(ZzTx(Dispute, client_id, tx_id))
           [] ty = W_resolve ->
                ContainsExcessiveFields(ZzTx(Resolve, client_id, tx_id))
           [] ty = W_chargeback ->
                ContainsExcessiveFields(ZzTx(Chargeback, client_id, tx_id))
    ELSE CASE ty = W_dispute -> Parsed(ZzTx(Dispute, client_id, tx_id))
           [] ty = W_resolve -> Parsed(ZzTx(Resolve, client_id, tx_id))
           [] ty = W_chargeback -> Parsed(ZzTx(Chargeback, client_id, tx_id))
           [] OTHER -> MissingRequiredField

\* amount
row_amount(ty, client_id, tx_id, f4) ==
    IF ~IsSome(f4) THEN Failed
    ELSE row_result(ty, client_id, tx_id, Unwrap(f4).val)

\* tx id
row_tx(parse_options, ty, client_id, f3) ==
    IF ~IsSome(f3) THEN Failed
    ELSE IF ~IsSome(Unwrap(f3).val) THEN MissingRequiredField
    ELSE row_amount(ty, client_id, Unwrap(Unwrap(f3).val),
                    wrap_field(zz_amount_parser(parse_options,
                                                trim_spaces(parse_options,
                                                            Unwrap(f3).rest)),
                               parse_options, Unwrap(f3).rest))

\* client id
row_client(parse_options, ty, f2) ==
    IF ~IsSome(f2) THEN Failed
    ELSE IF ~IsSome(Unwrap(f2).val) THEN MissingRequiredField
    ELSE row_tx(parse_options, ty, Unwrap(Unwrap(f2).val),
                wrap_field(parse_u32(trim_spaces(parse_options, Unwrap(f2).rest)),
                           parse_options, Unwrap(f2).rest))

\* tx type
row_type(parse_options, f1) ==
    IF ~IsSome(f1) THEN Failed
    ELSE IF ~IsSome(Unwrap(f1).val) THEN MissingRequiredField
    ELSE row_client(parse_options, Unwrap(Unwrap(f1).val),
                    wrap_field(parse_u16(trim_spaces(parse_options, Unwrap(f1).rest)),
                               parse_options, Unwrap(f1).rest))

\* parse_zztx_csv followed by deserialize_row's unwrap_or(Failed)
deserialize_row(parse_options, row) ==
    row_type(parse_options, wrap_field(tx_type_tags(trim_spaces(parse_options, row)),
                                       parse_options, row))

\* parsers/nom.rs: CsvZzTxParserNomImpl::deserialize_headers
deserialize_headers(parse_options, header) ==
    parse_zztx_csv_headers(parse_options, header)

\* ------------------------------------------------------------------ state

VARIABLES
    tx_map,              \* TransactionHashMapImpl.map: (client, tx) -> Option<state>
    client_balance_map,  \* client id -> Option<ZzClientBalance>
    phase,               \* "running", "done" (table returned) or "aborted" (panic)
    rows,                \* rows dispatched so far
    last_tx,             \* history: the record of the last process_tx call
    last_effect,         \* history: what insert_transaction returned in that call
    pre_balance,         \* history: the addressed balance before that call
    pre_entry,           \* history: the addressed map entry before that call
    dispute_snapshot,    \* history: balance and entry before the Dispute that
                         \* was applied last, kept over the Resolve that follows
    amt_a,               \* SpecAmt: the signed amount self
    amt_b,               \* SpecAmt: the operand of the last operation
    amt_op,              \* SpecAmt: the last operation, "none" before the first
    amt_r,               \* SpecAmt: what the last operation returned
    amt_pre,             \* SpecAmt history: self before the last operation
    amt_prev,            \* SpecAmt history: the operation before the last one
    amt_n,               \* SpecAmt: operations applied so far
    input,               \* SpecStream: the bytes of the file
    parse_options,       \* SpecStream: the ZzParseOptions of the run
    offset,              \* SpecStream: bytes read so far
    reads,               \* SpecStream: reads that returned bytes
    tail,                \* SpecStream: the tail buffer
    is_first,            \* SpecStream: header not yet looked for
    dispatched           \* SpecStream history: the rows given to deserialize_row

ledger_vars == <<tx_map, client_balance_map, phase, rows>>

history_vars == <<last_tx, last_effect, pre_balance, pre_entry, dispute_snapshot>>

amt_vars == <<amt_a, amt_b, amt_op, amt_r, amt_pre, amt_prev, amt_n>>

stream_vars == <<input, parse_options, offset, reads, tail, is_first, dispatched>>

vars == <<ledger_vars, history_vars, amt_vars, stream_vars>>

Keys == ClientIds \X TxIds

\* ------------------------------------------------- parsers/csv_parser.rs

\* process_tx that makes the account's row before it asks for the effect
process_tx_row_first(map, balances, zztx) ==
    LET client_id == zztx.client_id
        ins == insert_transaction(map, zztx, balances[client_id])
        cur == IF IsSome(balances[client_id])
               THEN Unwrap(balances[client_id])
               ELSE ZzClientBalance(client_id, zero, zero, zero, FALSE)
    IN  IF IsSome(ins.effect)
        THEN LET r == process_tx_effect(cur, Unwrap(ins.effect))
             IN  IF r.panic
                 THEN [map |-> ins.map, balances |-> balances,
                       effect |-> ins.effect, panic |-> TRUE]
                 ELSE [map |-> ins.map,
                       balances |-> [balances EXCEPT ![client_id] = Some(r.balance)],
                       effect |-> ins.effect, panic |-> FALSE]
        ELSE [map |-> ins.map,
              balances |-> [balances EXCEPT ![client_id] = Some(cur)],
              effect |-> None, panic |-> FALSE]

\* The process_tx closure: the next map, balance table and whether the run
\* panicked, for one parsed record.
process_tx(map, balances, zztx) ==
    LET client_id == zztx.client_id
        ins == insert_transaction(map, zztx, balances[client_id])
    IN  IF IsSome(ins.effect)
        THEN LET cur == IF IsSome(balances[client_id])
                        THEN Unwrap(balances[client_id])
                        ELSE ZzClientBalance(client_id, zero, zero, zero, FALSE)
                 r == process_tx_effect(cur, Unwrap(ins.effect))
             IN  IF r.panic
                 THEN [map |-> ins.map, balances |-> balances,
                       effect |-> ins.effect, panic |-> TRUE]
                 ELSE [map |-> ins.map,
                       balances |-> [balances EXCEPT ![client_id] = Some(r.balance)],
                       effect |-> ins.effect, panic |-> FALSE]
        ELSE [map |-> ins.map, balances |-> balances, effect |-> None,
              panic |-> FALSE]

\* The loop over client_balance_map that ends csv_zztx_parser_streaming.
compute_totals(balances) ==
    [c \in DOMAIN balances |->
        IF IsSome(balances[c]) THEN Some(compute_total(Unwrap(balances[c])))
        ELSE None]

\* ------------------------------------------------------------------- Spec

InitLedger ==
    /\ tx_map = [k \in Keys |-> None]
    /\ client_balance_map = [c \in ClientIds |-> None]
    /\ phase = "running"
    /\ rows = 0
    /\ last_tx = None
    /\ last_effect = None
    /\ pre_balance = None
    /\ pre_entry = None
    /\ dispute_snapshot = None

InitAmtIdle ==
    /\ amt_a = zero
    /\ amt_b = zero
    /\ amt_op = "none"
    /\ amt_r = None
    /\ amt_pre = zero
    /\ amt_prev = None
    /\ amt_n = 0

InitStreamIdle ==
    /\ input = <<>>
    /\ parse_options = DefaultOptions
    /\ offset = 0
    /\ reads = 0
    /\ tail = <<>>
    /\ is_first = TRUE
    /\ dispatched = <<>>

Init ==
    /\ InitLedger
    /\ InitAmtIdle
    /\ InitStreamIdle

\* One parsed row is dispatched to process_tx.
ProcessTx(zztx) ==
    /\ phase = "running"
    /\ rows < MaxRows
    /\ LET r == process_tx(tx_map, client_balance_map, zztx)
       IN  /\ tx_map' = r.map
           /\ client_balance_map' = r.balances
           /\ phase' = IF r.panic THEN "aborted" ELSE "running"
           /\ last_effect' = r.effect
           /\ dispute_snapshot' =
                IF zztx.type.kind = "Dispute" /\ IsSome(r.effect) /\ ~r.panic
                THEN Some([client_id |-> zztx.client_id, tx_id |-> zztx.tx_id,
                           balance |-> client_balance_map[zztx.client_id],
                           entry |-> tx_map[<<zztx.client_id, zztx.tx_id>>]])
                ELSE IF /\ zztx.type.kind = "Resolve"
                        /\ IsSome(dispute_snapshot)
                        /\ Unwrap(dispute_snapshot).client_id = zztx.client_id
                        /\ Unwrap(dispute_snapshot).tx_id = zztx.tx_id
                        /\ IsSome(last_tx)
                        /\ Unwrap(last_tx).type.kind = "Dispute"
                     THEN dispute_snapshot
                     ELSE None
    /\ rows' = rows + 1
    /\ last_tx' = Some(zztx)
    /\ pre_balance' = client_balance_map[zztx.client_id]
    /\ pre_entry' = tx_map[<<zztx.client_id, zztx.tx_id>>]
    /\ UNCHANGED <<amt_vars, stream_vars>>

\* End of input: the totals are computed and the table is returned.
Finish ==
    /\ phase = "running"
    /\ client_balance_map' = compute_totals(client_balance_map)
    /\ phase' = "done"
    /\ last_tx' = None
    /\ last_effect' = None
    /\ pre_balance' = None
    /\ pre_entry' = None
    /\ dispute_snapshot' = None
    /\ UNCHANGED <<tx_map, rows, amt_vars, stream_vars>>

Next ==
    \/ \E zztx \in ZzTxs : ProcessTx(zztx)
    \/ Finish

Spec == Init /\ [][Next]_vars

\* ------------------------------------------------------------- SpecStream

\* The largest number of bytes one read returns.
MaxRead == 64

\* Reads that return bytes, in one run.
MaxReads == 3

\* Data rows of a drawn input.
MaxInputRows == 2

\* str::split_once('\n'): None when the text holds no '\n'
split_once(s) ==
    LET n == PrefixLen(s, {c \in Range(s) : c # NL})
    IN  IF n = Len(s) THEN None
        ELSE Some(<<SubSeq(s, 1, n), DropFirst(s, n + 1)>>)

\* str::split('\n'), collected
RECURSIVE split(_)
split(s) ==
    IF IsSome(split_once(s))
    THEN <<Unwrap(split_once(s))[1]>> \o split(Unwrap(split_once(s))[2])
    ELSE <<s>>

\* error_on_big_row!
error_on_big_row(opts, row) == Len(row) > opts.max_line_width

\* The state the loop of csv_zztx_parser_streaming works on.
StreamState(tl, first, map, balances, panic, log) ==
    [tail |-> tl, is_first |-> first, map |-> map, balances |-> balances,
     panic |-> panic, dispatched |-> log]

\* process_tx on a parsed record
run_tx(st, zztx) ==
    LET r == process_tx(st.map, st.balances, zztx)
    IN  [st EXCEPT !.map = r.map, !.balances = r.balances, !.panic = r.panic]

\* apply_policy that skips a row with excess fields under Fail
apply_policy_excess_skipped(opts, st, res) ==
    CASE res.kind = "Parsed" -> run_tx(st, Unwrap(res.zztx))
      [] res.kind = "MissingRequiredField" ->
           IF opts.on_missing_field = Fail THEN [st EXCEPT !.panic = TRUE]
           ELSE st
      [] res.kind = "ContainsExcessiveFields" ->
           IF opts.on_excessive_field = Fail THEN st
           ELSE IF opts.on_excessive_field = Allow
                THEN run_tx(st, Unwrap(res.zztx))
                ELSE st
      [] res.kind = "Failed" ->
           IF opts.on_parse_error = Fail THEN [st EXCEPT !.panic = TRUE]
           ELSE st

\* apply_policy that skips a row with excess fields under Allow
apply_policy_allow_skipped(opts, st, res) ==
    CASE res.kind = "Parsed" -> run_tx(st, Unwrap(res.zztx))
      [] res.kind = "MissingRequiredField" ->
           IF opts.on_missing_field = Fail THEN [st EXCEPT !.panic = TRUE]
           ELSE st
      [] res.kind = "ContainsExcessiveFields" ->
           IF opts.on_excessive_field = Fail THEN [st EXCEPT !.panic = TRUE]
           ELSE IF opts.on_excessive_field = Allow
                THEN st
                ELSE st
      [] res.kind = "Failed" ->
           IF opts.on_parse_error = Fail THEN [st EXCEPT !.panic = TRUE]
           ELSE st

\* apply_policy that asks on_parse_error about a row with a missing field
apply_policy_missing_by_parse_error(opts, st, res) ==
    CASE res.kind = "Parsed" -> run_tx(st, Unwrap(res.zztx))
      [] res.kind = "MissingRequiredField" ->
           IF opts.on_parse_error = Fail THEN [st EXCEPT !.panic = TRUE]
           ELSE st
      [] res.kind = "ContainsExcessiveFields" ->
           IF opts.on_excessive_field = Fail THEN [st EXCEPT !.panic = TRUE]
           ELSE IF opts.on_excessive_field = Allow
                THEN run_tx(st, Unwrap(res.zztx))
                ELSE st
      [] res.kind = "Failed" ->
           IF opts.on_parse_error = Fail THEN [st EXCEPT !.panic = TRUE]
           ELSE st

\* The strictness policies applied to the outcome of deserialize_row, and
\* process_tx called on the record that remains.
apply_policy(opts, st, res) ==
    CASE res.kind = "Parsed" -> run_tx(st, Unwrap(res.zztx))
      [] res.kind = "MissingRequiredField" ->
           IF opts.on_missing_field = Fail THEN [st EXCEPT !.panic = TRUE]
           ELSE st
      [] res.kind = "ContainsExcessiveFields" ->
           IF opts.on_excessive_field = Fail THEN [st EXCEPT !.panic = TRUE]
           ELSE IF opts.on_excessive_field = Allow
                THEN run_tx(st, Unwrap(res.zztx))
                ELSE st
      [] res.kind = "Failed" ->
           IF opts.on_parse_error = Fail THEN [st EXCEPT !.panic = TRUE]
           ELSE st

\* One row given to deserialize_row.
dispatch_row(opts, st, row) ==
    apply_policy(opts, [st EXCEPT !.dispatched = Append(st.dispatched, row)],
                 deserialize_row(opts, row))

\* The while loop over the rows of a chunk: every row but the last is
\* dispatched, the last one replaces the tail.
RECURSIVE process_rows(_, _, _)
process_rows(opts, st, it) ==
    IF st.panic THEN st
    ELSE IF error_on_big_row(opts, Head(it)) THEN [st EXCEPT !.panic = TRUE]
    ELSE IF Len(it) = 1 THEN [st EXCEPT !.tail = Head(it)]
    ELSE process_rows(opts, dispatch_row(opts, st, Head(it)), Tail(it))

\* After the header test: the first segment is appended to the tail, and
\* the segments are the rows of the chunk.
read_rows(opts, st, first) ==
    process_rows(opts, [st EXCEPT !.is_first = FALSE,
                                  !.tail = st.tail \o first[1]],
                 <<first[1]>> \o split(first[2]))

\* buf.split_once('\n').unwrap_or((buf, ""))
split_or_all(buf) ==
    IF IsSome(split_once(buf)) THEN Unwrap(split_once(buf)) ELSE <<buf, <<>>>>

\* The is_first block on a chunk that holds a '\n': the header row is
\* taken off the chunk when the chunk's first row parses as one.
skip_headers(opts, first, buf) ==
    IF deserialize_headers(opts, first[1]) THEN first[2] ELSE buf

\* The body of the loop for one chunk of at least one byte.
read_chunk(opts, st, buf) ==
    IF st.is_first
    THEN IF IsSome(split_once(buf))
         THEN read_rows(opts, st,
                        split_or_all(skip_headers(opts, split_or_all(buf), buf)))
         ELSE [st EXCEPT !.tail = st.tail \o buf,
                         !.panic = error_on_big_row(opts, st.tail \o buf)]
    ELSE read_rows(opts, st, split_or_all(buf))

\* The tail after the loop, dispatched when it is not empty.
drain_tail(opts, st) ==
    IF st.tail = <<>> THEN st
    ELSE IF error_on_big_row(opts, st.tail) THEN [st EXCEPT !.panic = TRUE]
    ELSE dispatch_row(opts, st, st.tail)

\* compute_total on every balance of the table
return_table(st) ==
    IF st.panic THEN st
    ELSE [st EXCEPT !.balances = compute_totals(st.balances)]

\* After the loop: the tail, then the totals.
drain(opts, st) == return_table(drain_tail(opts, st))

\* ZzTxSerializeCsv
ZzTxSerializeCsv(tx) ==
    LET head == CASE tx.type.kind = "Deposit" -> W_deposit
                  [] tx.type.kind = "Withdrawal" -> W_withdrawal
                  [] tx.type.kind = "Dispute" -> W_dispute
                  [] tx.type.kind = "Resolve" -> W_resolve
                  [] tx.type.kind = "Chargeback" -> W_chargeback
        ids == <<Comma>> \o NatToStr(tx.client_id) \o <<Comma>> \o NatToStr(tx.tx_id)
    IN  IF tx.type.kind \in {"Deposit", "Withdrawal"}
        THEN head \o ids \o <<Comma>> \o Display(tx.type.amount)
        ELSE head \o ids

HeaderRow ==
    W_type \o <<Comma>> \o W_client \o <<Comma>> \o W_tx \o <<Comma>> \o W_amount

\* The data rows inputs are made of: a deposit, a dispute of it, the same
\* dispute with a fifth field, a dispute by another client and a row of no
\* known type.
InputRows ==
    {ZzTxSerializeCsv(ZzTx(Deposit(ZzAmount(1, 5000)), 1, 1)),
     ZzTxSerializeCsv(ZzTx(Dispute, 1, 1)),
     ZzTxSerializeCsv(ZzTx(Dispute, 1, 1)) \o <<Comma, "1">>,
     ZzTxSerializeCsv(ZzTx(Dispute, 2, 1)),
     <<"x">>}

RowSeqs == UNION {[1..n -> InputRows] : n \in 0..MaxInputRows}

\* Rows joined by '\n'.
RECURSIVE Join(_)
Join(rs) ==
    IF rs = <<>> THEN <<>>
    ELSE IF Len(rs) = 1 THEN rs[1]
    ELSE rs[1] \o <<NL>> \o Join(Tail(rs))

\* The inputs: with and without the header row, with and without a '\n'
\* after the last row.
Inputs ==
    {Join(rs) : rs \in RowSeqs}
    \cup {Join(rs) \o <<NL>> : rs \in RowSeqs}
    \cup {Join(<<HeaderRow>> \o rs) : rs \in RowSeqs}
    \cup {Join(<<HeaderRow>> \o rs) \o <<NL>> : rs \in RowSeqs}

\* The options of a run: the default; rows with errors skipped and excess
\* fields used; and rows with errors or excess fields skipped under a
\* max_line_width that the shorter rows of InputRows fit and the deposit
\* row exceeds.
OptionSets ==
    {DefaultOptions,
     ZzParseOptions(200, Ignore, Allow, Ignore, 4096),
     ZzParseOptions(200, Allow, Ignore, Allow, 13)}

CurrentState ==
    StreamState(tail, is_first, tx_map, client_balance_map,
                phase = "aborted", dispatched)

InitStream ==
    /\ InitLedger
    /\ InitAmtIdle
    /\ input \in Inputs
    /\ parse_options \in OptionSets
    /\ offset = 0
    /\ reads = 0
    /\ tail = <<>>
    /\ is_first = TRUE
    /\ dispatched = <<>>

SetState(st) ==
    /\ tail' = st.tail
    /\ is_first' = st.is_first
    /\ tx_map' = st.map
    /\ client_balance_map' = st.balances
    /\ dispatched' = st.dispatched

\* file.read_at returns size > 0 bytes and the loop body runs on them.
ReadChunk(size) ==
    /\ phase = "running"
    /\ offset + size <= Len(input)
    /\ reads + 1 < MaxReads \/ offset + size = Len(input)
    /\ LET st == read_chunk(parse_options, CurrentState,
                            SubSeq(input, offset + 1, offset + size))
       IN  /\ SetState(st)
           /\ phase' = IF st.panic THEN "aborted" ELSE "running"
    /\ offset' = offset + size
    /\ reads' = reads + 1
    /\ UNCHANGED <<input, parse_options, rows, history_vars, amt_vars>>

\* The loop ended by a read shorter than the input that is left.
ReadEnd_on_short_read ==
    /\ phase = "running"
    /\ LET st == drain(parse_options, CurrentState)
       IN  /\ SetState(st)
           /\ phase' = IF st.panic THEN "aborted" ELSE "done"
    /\ UNCHANGED <<input, parse_options, offset, reads, rows, history_vars, amt_vars>>

\* file.read_at returns 0: the loop ends, the tail is drained and the table
\* is returned.
ReadEnd ==
    /\ phase = "running"
    /\ offset = Len(input)
    /\ LET st == drain(parse_options, CurrentState)
       IN  /\ SetState(st)
           /\ phase' = IF st.panic THEN "aborted" ELSE "done"
    /\ UNCHANGED <<input, parse_options, offset, reads, rows, history_vars, amt_vars>>

NextStream ==
    \/ \E size \in 1..MaxRead : ReadChunk(size)
    \/ ReadEnd

SpecStream == InitStream /\ [][NextStream]_vars

\* The run that reads the whole input in one chunk.
InitialState ==
    StreamState(<<>>, TRUE, [k \in Keys |-> None], [c \in ClientIds |-> None],
                FALSE, <<>>)

DrainUnlessAborted(opts, st) == IF st.panic THEN st ELSE drain(opts, st)

WholeRun(opts, text) ==
    IF text = <<>> THEN drain(opts, InitialState)
    ELSE DrainUnlessAborted(opts, read_chunk(opts, InitialState, text))

\* ---------------------------------------------------------------- SpecAmt

\* The amounts drawn: every integer part up to MaxInt, and fractions at and
\* next to the ends of 0..9999.
Decimals == {0, 1, 5000, 9999}

SignedAmounts ==
    {Unwrap(new(i, d)) : i \in (0 - MaxInt)..MaxInt, d \in Decimals}

UnsignedAmounts == {Unwrap(new(i, d)) : i \in 0..MaxInt, d \in Decimals}

\* The operands of add and sub: of both signs, with the smallest and the
\* largest fraction.
Operands ==
    {Unwrap(new(i, d)) : i \in {0 - 1, 0, 1}, d \in {1, 9999}} \cup {zero}

\* Options under which an integer part of one digit is the longest parsed.
OneDigitOptions == ZzParseOptions(1, Fail, Fail, Fail, 4096)

\* Amounts at the two sides of that limit.
DigitLimitAmounts == {ZzAmount(9, 9999), ZzAmount(10, 0), ZzAmount(0 - 10, 1)}

InitAmt ==
    /\ InitLedger
    /\ input = <<>>
    /\ offset = 0
    /\ reads = 0
    /\ tail = <<>>
    /\ is_first = TRUE
    /\ dispatched = <<>>
    /\ \/ parse_options = DefaultOptions /\ amt_a \in SignedAmounts
       \/ parse_options = OneDigitOptions /\ amt_a \in DigitLimitAmounts
    /\ amt_b = zero
    /\ amt_op = "none"
    /\ amt_r = None
    /\ amt_pre = zero
    /\ amt_prev = None
    /\ amt_n = 0

\* A run of SpecAmt applies up to MaxOps operations and ends with its first
\* construction or conversion.
AmtRunning == amt_n < MaxOps /\ amt_op \notin {"new", "parse_i", "parse_u", "row"}

\* The ids of the records serialized: small ones, and the largest client id
\* with a transaction id above it.
RowIds == {<<1, 1>>, <<65535, 70000>>}

\* The last operation becomes the one before the last.
ShiftHistory ==
    amt_prev' = IF amt_op = "none" THEN None
                ELSE Some([op |-> amt_op, b |-> amt_b, pre |-> amt_pre])

AmtGreaterEq(other) ==
    /\ AmtRunning
    /\ ShiftHistory
    /\ amt_r' = Some(greater_eq_than(amt_a, other))
    /\ amt_op' = "greater_eq_than"
    /\ amt_b' = other
    /\ amt_pre' = amt_a
    /\ amt_n' = amt_n + 1
    /\ UNCHANGED <<amt_a, ledger_vars, history_vars, stream_vars>>

AmtAdd(other) ==
    /\ AmtRunning
    /\ ShiftHistory
    /\ amt_a' = add(amt_a, other)
    /\ amt_op' = "add"
    /\ amt_b' = other
    /\ amt_pre' = amt_a
    /\ amt_r' = None
    /\ amt_n' = amt_n + 1
    /\ UNCHANGED <<ledger_vars, history_vars, stream_vars>>

AmtSub(other) ==
    /\ AmtRunning
    /\ ShiftHistory
    /\ amt_a' = sub(amt_a, other)
    /\ amt_op' = "sub"
    /\ amt_b' = other
    /\ amt_pre' = amt_a
    /\ amt_r' = None
    /\ amt_n' = amt_n + 1
    /\ UNCHANGED <<ledger_vars, history_vars, stream_vars>>

\* The fractional units given to new: valid ones, 10000 and above.
NewDecimals == Decimals \cup {10000, 10001}

\* ZzAmount::new(integer, decimal), of either variant
AmtNew(integer, decimal) ==
    /\ AmtRunning
    /\ ShiftHistory
    /\ amt_r' = new(integer, decimal)
    /\ amt_op' = "new"
    /\ amt_b' = [integer |-> integer, decimal |-> decimal]
    /\ amt_pre' = amt_a
    /\ amt_n' = amt_n + 1
    /\ UNCHANGED <<amt_a, ledger_vars, history_vars, stream_vars>>

\* format!("{amount}") followed by parse_zzamount_i
AmtParseSigned ==
    /\ AmtRunning
    /\ ShiftHistory
    /\ amt_r' = parse_zzamount_i(parse_options, Display(amt_a))
    /\ amt_op' = "parse_i"
    /\ amt_b' = amt_a
    /\ amt_pre' = amt_a
    /\ amt_n' = amt_n + 1
    /\ UNCHANGED <<amt_a, ledger_vars, history_vars, stream_vars>>

\* format!("{amount}") followed by parse_zzamount_u, for an amount that a
\* ZzUAmount can hold
AmtParseUnsigned ==
    /\ AmtRunning
    /\ amt_a.integer >= 0
    /\ ShiftHistory
    /\ amt_r' = parse_zzamount_u(parse_options, Display(amt_a))
    /\ amt_op' = "parse_u"
    /\ amt_b' = amt_a
    /\ amt_pre' = amt_a
    /\ amt_n' = amt_n + 1
    /\ UNCHANGED <<amt_a, ledger_vars, history_vars, stream_vars>>

\* ZzTxSerializeCsv of a deposit or a withdrawal of the amount, followed by
\* deserialize_row
AmtRowRoundTrip(type, ids) ==
    /\ AmtRunning
    /\ amt_a.integer >= 0
    /\ ShiftHistory
    /\ amt_r' = deserialize_row(parse_options,
                                ZzTxSerializeCsv(ZzTx(type, ids[1], ids[2])))
    /\ amt_op' = "row"
    /\ amt_b' = ZzTx(type, ids[1], ids[2])
    /\ amt_pre' = amt_a
    /\ amt_n' = amt_n + 1
    /\ UNCHANGED <<amt_a, ledger_vars, history_vars, stream_vars>>

NextAmt ==
    \/ \E other \in UnsignedAmounts : AmtGreaterEq(other)
    \/ \E other \in Operands : AmtAdd(other)
    \/ \E other \in Operands : AmtSub(other)
    \/ \E integer \in {0 - 1, 0, 1}, decimal \in NewDecimals :
          AmtNew(integer, decimal)
    \/ AmtParseSigned
    \/ AmtParseUnsigned
    \/ \E type \in {Deposit(amt_a), Withdrawal(amt_a)}, ids \in RowIds :
          AmtRowRoundTrip(type, ids)

SpecAmt == InitAmt /\ [][NextAmt]_vars

\* ---------------------------------------------------------------- SpecRow
\* One row given to each of the two row parsers.

\* parsers/serde_parser.rs calls nom::zz_amount::parse_zzamount, which the
\* sources do not have; the amount grammar of the specification is the one
\* parse_zzamount_inner implements, taken here with its optional sign.
parse_zzamount(opts, text) == parse_zzamount_i(opts, text)

\* ZzTxTypeDiscriminants of a type column
discriminant(ty) ==
    CASE ty = W_deposit -> "Deposit"
      [] ty = W_withdrawal -> "Withdrawal"
      [] ty = W_dispute -> "Dispute"
      [] ty = W_resolve -> "Resolve"
      [] ty = W_chargeback -> "Chargeback"

\* struct ZzTxSerde as the csv reader fills it from the four columns: an
\* empty or absent column is None
ZzTxSerde(f) ==
    [type |-> IF f.type = <<>> THEN None ELSE Some(discriminant(f.type)),
     client_id |-> IF f.client = <<>> THEN None ELSE Some(DigitsToNat(f.client)),
     tx_id |-> IF f.tx = <<>> THEN None ELSE Some(DigitsToNat(f.tx)),
     amount |-> IF f.amount = <<>> THEN None ELSE Some(f.amount)]

\* the match on (type, amount) of to_zztx
to_zztx_match(ty, client_id, tx_id, amount) ==
    IF IsSome(amount)
    THEN CASE ty = "Deposit" ->
                Parsed(ZzTx(Deposit(Unwrap(amount)), client_id, tx_id))
           [] ty = "Withdrawal" ->
                Parsed(ZzTx(Withdrawal(Unwrap(amount)), client_id, tx_id))
           [] ty = "Dispute" ->
                ContainsExcessiveFields(ZzTx(Dispute, client_id, tx_id))
           [] ty = "Resolve" ->
                ContainsExcessiveFields(ZzTx(Resolve, client_id, tx_id))
           [] ty = "Chargeback" ->
                ContainsExcessiveFields(ZzTx(Chargeback, client_id, tx_id))
    ELSE CASE ty = "Dispute" -> Parsed(ZzTx(Dispute, client_id, tx_id))
           [] ty = "Resolve" -> Parsed(ZzTx(Resolve, client_id, tx_id))
           [] ty = "Chargeback" -> Parsed(ZzTx(Chargeback, client_id, tx_id))
           [] OTHER -> MissingRequiredField

\* the amount of to_zztx: parsed when the column is there
to_zztx_amount(self, parsed) ==
    IF ~IsSome(self.amount)
    THEN to_zztx_match(Unwrap(self.type), Unwrap(self.client_id),
                       Unwrap(self.tx_id), None)
    ELSE IF ~IsSome(parsed) THEN Failed
    ELSE to_zztx_match(Unwrap(self.type), Unwrap(self.client_id),
                       Unwrap(self.tx_id), Some(Unwrap(parsed).val))

\* ZzTxSerde::to_zztx
to_zztx(self, opts) ==
    IF ~IsSome(self.type) THEN MissingRequiredField
    ELSE IF ~IsSome(self.client_id) THEN MissingRequiredField
    ELSE IF ~IsSome(self.tx_id) THEN MissingRequiredField
    ELSE to_zztx_amount(self,
                        IF IsSome(self.amount)
                        THEN parse_zzamount(opts, Unwrap(self.amount))
                        ELSE None)

\* The columns rows are made of: each of the five types or none, a client
\* id or none, a tx id or none, an amount or none.
TypeColumns ==
    {<<>>, W_deposit, W_withdrawal, W_dispute, W_resolve, W_chargeback}

ClientColumns == {<<>>, <<"1">>, <<"6", "5", "5", "3", "5">>}

TxColumns == {<<>>, <<"2">>}

AmountColumns == {<<>>, <<"1", ".", "5">>, <<"2", "0">>}

\* The columns of a row cut after its first `cols` columns.
RowColumns(ty, client, tx, amount, cols) ==
    [type |-> ty,
     client |-> IF cols >= 2 THEN client ELSE <<>>,
     tx |-> IF cols >= 3 THEN tx ELSE <<>>,
     amount |-> IF cols >= 4 THEN amount ELSE <<>>]

\* The text of that row.
RowText(f, cols) ==
    f.type
    \o (IF cols >= 2 THEN <<Comma>> \o f.client ELSE <<>>)
    \o (IF cols >= 3 THEN <<Comma>> \o f.tx ELSE <<>>)
    \o (IF cols >= 4 THEN <<Comma>> \o f.amount ELSE <<>>)

InitRow ==
    /\ InitLedger
    /\ parse_options = DefaultOptions
    /\ offset = 0
    /\ reads = 0
    /\ tail = <<>>
    /\ is_first = TRUE
    /\ dispatched = <<>>
    /\ \E ty \in TypeColumns, client \in ClientColumns, tx \in TxColumns,
          amount \in AmountColumns, cols \in 1..4 :
          /\ amt_b = RowColumns(ty, client, tx, amount, cols)
          /\ input = RowText(amt_b, cols)
          /\ amt_a = ZzTxSerde(amt_b)
    /\ amt_op = "none"
    /\ amt_r = None
    /\ amt_pre = zero
    /\ amt_prev = None
    /\ amt_n = 0

\* CsvZzTxParserNomImpl::deserialize_row on the row
RowNom ==
    /\ amt_op = "none"
    /\ amt_r' = deserialize_row(parse_options, input)
    /\ amt_op' = "nom"
    /\ amt_n' = amt_n + 1
    /\ UNCHANGED <<amt_a, amt_b, amt_pre, amt_prev, ledger_vars, history_vars,
                   stream_vars>>

\* CsvZzTxParserSerdeImpl::deserialize_row on the row: to_zztx of its record
RowSerde ==
    /\ amt_op = "none"
    /\ amt_r' = to_zztx(amt_a, parse_options)
    /\ amt_op' = "serde"
    /\ amt_n' = amt_n + 1
    /\ UNCHANGED <<amt_a, amt_b, amt_pre, amt_prev, ledger_vars, history_vars,
                   stream_vars>>

NextRow ==
    \/ RowNom
    \/ RowSerde

SpecRow == InitRow /\ [][NextRow]_vars

\* ------------------------------------------------------------- SpecPolicy
\* The streaming run under every combination of the three policies.

Policies == {Fail, Allow, Ignore}

PolicyOptions ==
    {ZzParseOptions(200, missing, excessive, parse_error, 4096) :
        missing \in Policies, excessive \in Policies, parse_error \in Policies}

\* A deposit, a deposit cut after its client column and a row of no known
\* type.
PolicyRows ==
    {ZzTxSerializeCsv(ZzTx(Deposit(ZzAmount(1, 0)), 1, 1)),
     W_deposit \o <<Comma, "1">>,
     <<"x">>}

PolicyInputs ==
    {Join(rs) : rs \in UNION {[1..n -> PolicyRows] : n \in 1..MaxInputRows}}
    \cup {Join(rs) \o <<NL>> :
            rs \in UNION {[1..n -> PolicyRows] : n \in 1..MaxInputRows}}

InitPolicy ==
    /\ InitLedger
    /\ InitAmtIdle
    /\ input \in PolicyInputs
    /\ parse_options \in PolicyOptions
    /\ offset = 0
    /\ reads = 0
    /\ tail = <<>>
    /\ is_first = TRUE
    /\ dispatched = <<>>

SpecPolicy == InitPolicy /\ [][NextStream]_vars

\* -------------------------------------------------------------- SpecParse
\* One amount text given to parse_zzamount_u and to parse_zzamount_i.

SignTexts == {<<>>, <<"-">>, <<"+">>}

IntTexts == {<<"0">>, <<"1">>, <<"1", "2">>}

\* Fractions of one to six digits, and none.
FracTexts ==
    {<<>>,
     <<"1">>,
     <<"0", "1">>,
     <<"0", "0", "1">>,
     <<"0", "0", "0", "1">>,
     <<"1", "0">>,
     <<"5">>,
     <<"9", "9">>,
     <<"9", "9", "9">>,
     <<"1", "0", "0", "0">>,
     <<"9", "9", "9", "9">>,
     <<"9", "9", "9", "9", "9">>,
     <<"1", "2", "3", "4", "5">>,
     <<"1", "2", "3", "4", "5", "6">>,
     <<"0", "0", "0", "1", "9">>}

\* The amount text of a sign, integer digits and fraction digits.
AmountText(sign, int, frac) ==
    sign \o int \o (IF frac = <<>> THEN <<>> ELSE <<".">> \o frac)

InitParse ==
    /\ InitLedger
    /\ parse_options = DefaultOptions
    /\ offset = 0
    /\ reads = 0
    /\ tail = <<>>
    /\ is_first = TRUE
    /\ dispatched = <<>>
    /\ \E sign \in SignTexts, int \in IntTexts, frac \in FracTexts :
          /\ amt_b = [sign |-> sign, int |-> int, frac |-> frac]
          /\ input = AmountText(sign, int, frac)
    /\ amt_a = zero
    /\ amt_op = "none"
    /\ amt_r = None
    /\ amt_pre = zero
    /\ amt_prev = None
    /\ amt_n = 0

\* parse_zzamount_u on the text
ParseTextUnsigned ==
    /\ amt_op = "none"
    /\ amt_r' = parse_zzamount_u(parse_options, input)
    /\ amt_op' = "text_u"
    /\ amt_n' = amt_n + 1
    /\ UNCHANGED <<amt_a, amt_b, amt_pre, amt_prev, ledger_vars, history_vars,
                   stream_vars>>

\* parse_zzamount_i on the text
ParseTextSigned ==
    /\ amt_op = "none"
    /\ amt_r' = parse_zzamount_i(parse_options, input)
    /\ amt_op' = "text_i"
    /\ amt_n' = amt_n + 1
    /\ UNCHANGED <<amt_a, amt_b, amt_pre, amt_prev, ledger_vars, history_vars,
                   stream_vars>>

NextParse ==
    \/ ParseTextUnsigned
    \/ ParseTextSigned

SpecParse == InitParse /\ [][NextParse]_vars

\* --------------------------------------------------------------- SpecRead
\* The streaming run as sequential code: while a step is possible, one is
\* taken.

\* A deposit and a row of no known type.
ReadRows ==
    {ZzTxSerializeCsv(ZzTx(Deposit(ZzAmount(1, 5000)), 1, 1)), <<"x">>}

ReadInputs ==
    {Join(rs) : rs \in UNION {[1..n -> ReadRows] : n \in 0..MaxInputRows}}
    \cup {Join(rs) \o <<NL>> :
            rs \in UNION {[1..n -> ReadRows] : n \in 0..MaxInputRows}}
    \cup {Join(<<HeaderRow, row>>) : row \in ReadRows}

InitRead ==
    /\ InitLedger
    /\ InitAmtIdle
    /\ input \in ReadInputs
    /\ parse_options \in {DefaultOptions,
                          ZzParseOptions(200, Ignore, Allow, Ignore, 4096)}
    /\ offset = 0
    /\ reads = 0
    /\ tail = <<>>
    /\ is_first = TRUE
    /\ dispatched = <<>>

\* One more turn of the loop of a running pipeline: file.read_at is called
\* again and either returns bytes (a read is counted) or returns 0 (the
\* loop is left).  A running pipeline can always take such a step, a read
\* of all that is left of the input or the read at its end, and under
\* [][NextStream]_vars the steps that change reads or phase are exactly
\* the steps of NextStream.
LoopTurn ==
    /\ phase = "running"
    /\ reads' \in {reads, reads + 1}
    /\ phase' \in {"running", "done", "aborted"}

\* The loop is synchronous code on one thread: while the pipeline runs, its
\* next turn is eventually taken.
SpecRead == InitRead /\ [][NextStream]_vars /\ WF_<<reads, phase>>(LoopTurn)

\* ----------------------------------------------------------------- claims

\* The decimal value an amount is rendered as, in units of 0.0001.
Val(a) == RenderedValue(Display(a))

LastKind == IF IsSome(last_tx) THEN Unwrap(last_tx).type.kind ELSE "none"

LastClient == Unwrap(last_tx).client_id

LastKey == <<Unwrap(last_tx).client_id, Unwrap(last_tx).tx_id>>

\* C1: a Withdrawal(amt) whose key has no entry produces an effect only if
\* the account's available is >= amt as exact decimal values.  The code lets
\* a withdrawal through whenever the integer parts are equal.
C1_WithdrawalNeedsFunds ==
    (LastKind = "Withdrawal" /\ ~IsSome(pre_entry) /\ IsSome(last_effect))
    => /\ IsSome(pre_balance)
       /\ Val(Unwrap(pre_balance).available) >= Val(Unwrap(last_tx).type.amount)

\* C2: greater_eq_than(self, other) is true iff self is non-negative and the
\* value of self is >= the value of other.  The code answers true whenever
\* the integer parts are equal, whatever the fractions.
C2_GreaterEqIsValueOrder ==
    amt_op = "greater_eq_than"
    => (Unwrap(amt_r) <=> (amt_pre.integer >= 0 /\ Val(amt_pre) >= Val(amt_b)))

\* C3: insert_transaction returns no effect for a record addressed to an
\* account whose balance is locked, so the assertion of process_tx_effect is
\* never reached.  The code's state machine never looks at the locked flag.
C3_NoEffectWhenLocked ==
    (IsSome(last_tx) /\ IsSome(pre_balance) /\ Unwrap(pre_balance).locked)
    => (last_effect = None /\ phase # "aborted")

\* C4: once an account is locked its available and held never change again,
\* and applying an effect to a locked balance panics with the balance table
\* untouched.
C4_LockedBalanceFrozen ==
    [][\A c \in ClientIds :
         (IsSome(client_balance_map[c]) /\ Unwrap(client_balance_map[c]).locked)
         => /\ IsSome(client_balance_map'[c])
            /\ Unwrap(client_balance_map'[c]).available
                 = Unwrap(client_balance_map[c]).available
            /\ Unwrap(client_balance_map'[c]).held
                 = Unwrap(client_balance_map[c]).held
            /\ Unwrap(client_balance_map'[c]).locked
            /\ (/\ rows' = rows + 1
                /\ Unwrap(last_tx').client_id = c
                /\ IsSome(last_effect'))
               => (phase' = "aborted" /\ client_balance_map' = client_balance_map)
      ]_vars

C4_Witness ==
    /\ phase = "aborted"
    /\ IsSome(last_effect)
    /\ IsSome(pre_balance)
    /\ Unwrap(pre_balance).locked
    /\ client_balance_map[LastClient] = pre_balance

\* C5: a run in which every row parses never aborts.  It does, when a record
\* that produces an effect is addressed to a locked account (see C3).
C5_NeverAborts == phase # "aborted"

\* C6: whatever the sizes of the chunks the reads return, the pipeline gives
\* the rows and the table (or the abort) of the run that reads the input in
\* one chunk.  The code dispatches the segments of each chunk on their own:
\* the tail carried from the previous chunk is never joined to them.
C6_ChunkingInvisible ==
    phase \in {"done", "aborted"}
    => LET whole == WholeRun(parse_options, input)
       IN  IF whole.panic THEN phase = "aborted"
           ELSE /\ phase = "done"
                /\ dispatched = whole.dispatched
                /\ client_balance_map = whole.balances

\* C7: Dispute of a Deposited(amt) transaction followed by Resolve of the
\* same key brings available and held back to their values before the
\* dispute and the entry back to Deposited(amt).
C7_DisputeResolveRestores ==
    (IsSome(dispute_snapshot) /\ LastKind = "Resolve")
    => /\ IsSome(last_effect)
       /\ phase = "running"
       /\ Unwrap(dispute_snapshot).entry = tx_map[LastKey]
       /\ Unwrap(tx_map[LastKey]).kind = "Deposit"
       /\ Unwrap(client_balance_map[LastClient]).available
            = Unwrap(Unwrap(dispute_snapshot).balance).available
       /\ Unwrap(client_balance_map[LastClient]).held
            = Unwrap(Unwrap(dispute_snapshot).balance).held

\* a Resolve applied right after its Dispute, with available negative in between
C7_Witness ==
    /\ IsSome(dispute_snapshot)
    /\ LastKind = "Resolve"
    /\ IsSome(last_effect)
    /\ Unwrap(pre_balance).available.integer < 0

ChargebackOnDisputed ==
    /\ LastKind = "Chargeback"
    /\ IsSome(pre_entry)
    /\ Unwrap(pre_entry).kind = "Dispute"

ChargebackOutcome ==
    /\ tx_map[LastKey] = Some(StLocked)
    /\ phase = "running"
    /\ IsSome(client_balance_map[LastClient])
    /\ LET after  == Unwrap(client_balance_map[LastClient])
           before == Unwrap(pre_balance)
       IN  /\ after.available = before.available
           /\ Val(after.held) = Val(before.held) - Val(Unwrap(pre_entry).amount)
           /\ after.locked
           /\ after.total = before.total

\* The entries of client c in the map.
EntriesOf(c) == {t \in TxIds : IsSome(tx_map[<<c, t>>])}

DisputeKinds == {"Dispute", "Resolve", "Chargeback"}

\* C9: a Dispute, Resolve or Chargeback naming (B, t), when the only entry
\* with transaction id t belongs to another account A, produces no effect and
\* leaves the map and every balance as they were.
C9_WrongClientNoEffect ==
    [][(/\ rows' = rows + 1
        /\ Unwrap(last_tx').type.kind \in DisputeKinds
        /\ ~IsSome(tx_map[<<Unwrap(last_tx').client_id, Unwrap(last_tx').tx_id>>])
        /\ \E a \in ClientIds : IsSome(tx_map[<<a, Unwrap(last_tx').tx_id>>]))
       => /\ last_effect' = None
          /\ tx_map' = tx_map
          /\ client_balance_map' = client_balance_map
          /\ phase' = phase
      ]_vars

C9_Witness ==
    /\ LastKind \in DisputeKinds
    /\ ~IsSome(pre_entry)
    /\ last_effect = None
    /\ \E a \in ClientIds \ {LastClient} :
         /\ IsSome(tx_map[<<a, Unwrap(last_tx).tx_id>>])
         /\ Unwrap(tx_map[<<a, Unwrap(last_tx).tx_id>>]).kind = "Dispute"

\* C10: in every row of the returned table total equals available + held,
\* as the decimal values the output renders.  It does not when available is
\* negative with a fraction: sub borrows toward minus infinity while Display
\* writes the fraction after the (negative) integer part.
C10_TotalIsSum ==
    phase = "done"
    => \A c \in ClientIds :
         IsSome(client_balance_map[c])
         => Val(Unwrap(client_balance_map[c]).total)
              = Val(Unwrap(client_balance_map[c]).available)
                + Val(Unwrap(client_balance_map[c]).held)

\* C11: add(b) followed by sub(b), and sub(b) followed by add(b), leave a
\* signed amount with the integer part and the fractional units it had.
C11_AddSubInverse ==
    (/\ IsSome(amt_prev)
     /\ Unwrap(amt_prev).b = amt_b
     /\ <<Unwrap(amt_prev).op, amt_op>> \in {<<"add", "sub">>, <<"sub", "add">>})
    => amt_a = Unwrap(amt_prev).pre

\* add with a carry undone by sub with a borrow, on a negative amount
C11_Witness ==
    /\ IsSome(amt_prev)
    /\ Unwrap(amt_prev).op = "add"
    /\ amt_op = "sub"
    /\ Unwrap(amt_prev).b = amt_b
    /\ Unwrap(amt_prev).pre.decimal + amt_b.decimal >= 10000
    /\ Unwrap(amt_prev).pre.integer < 0
    /\ amt_a = Unwrap(amt_prev).pre

\* C12: a withdrawal that succeeds lowers available by exactly the amount,
\* as the decimal values the output renders, leaves held and locked as they
\* were and records the entry as Withdrawn.  A withdrawal let through with
\* available below the amount (C1) leaves a negative available with a
\* fraction, which is rendered as another value (C10).
C12_WithdrawalExact ==
    (LastKind = "Withdrawal" /\ IsSome(last_effect) /\ phase = "running")
    => /\ tx_map[LastKey] = Some(StWithdrawal)
       /\ IsSome(pre_balance)
       /\ Val(Unwrap(client_balance_map[LastClient]).available)
            = Val(Unwrap(pre_balance).available) - Val(Unwrap(last_tx).type.amount)
       /\ Unwrap(client_balance_map[LastClient]).held = Unwrap(pre_balance).held
       /\ Unwrap(client_balance_map[LastClient]).locked
            = Unwrap(pre_balance).locked

\* The balance process_tx applies an effect to: the account's, or the one
\* get_or_insert_with creates.
PriorBalance ==
    IF IsSome(pre_balance) THEN Unwrap(pre_balance)
    ELSE ZzClientBalance(LastClient, zero, zero, zero, FALSE)

\* C13: a Deposit(amt) whose key has no entry always yields the entry
\* Deposit(amt) and the effect {amt, available: add, held: none, locked:
\* false}, whatever the balance; applied to a balance that is not locked it
\* adds amt to available and leaves held and locked as they were.
C13_DepositAlwaysSucceeds ==
    (LastKind = "Deposit" /\ ~IsSome(pre_entry))
    => /\ last_effect
            = Some(ZzTxEffect(Unwrap(last_tx).type.amount, Some(TRUE), None, FALSE))
       /\ tx_map[LastKey] = Some(StDeposit(Unwrap(last_tx).type.amount))
       /\ ~PriorBalance.locked
            => /\ phase = "running"
               /\ Unwrap(client_balance_map[LastClient]).available
                    = add(PriorBalance.available,
                          to_i_amount(Unwrap(last_tx).type.amount))
               /\ Unwrap(client_balance_map[LastClient]).held = PriorBalance.held
               /\ ~Unwrap(client_balance_map[LastClient]).locked

\* a deposit applied to an account whose available is negative
C13_Witness ==
    /\ LastKind = "Deposit"
    /\ ~IsSome(pre_entry)
    /\ IsSome(pre_balance)
    /\ Unwrap(pre_balance).available.integer < 0
    /\ IsSome(last_effect)
    /\ tx_map[LastKey] = Some(StDeposit(Unwrap(last_tx).type.amount))
    /\ phase = "running"

\* C14: a Dispute, Resolve or Chargeback whose key has no entry produces no
\* effect, creates no entry and leaves every balance as it was.
C14_NoEntryNoEffect ==
    [][(/\ rows' = rows + 1
        /\ Unwrap(last_tx').type.kind \in DisputeKinds
        /\ ~IsSome(tx_map[<<Unwrap(last_tx').client_id, Unwrap(last_tx').tx_id>>]))
       => /\ last_effect' = None
          /\ tx_map' = tx_map
          /\ client_balance_map' = client_balance_map
          /\ phase' = "running"
      ]_vars

\* such a record addressed to an account that has a balance, naming a
\* transaction id no account has an entry for
C14_Witness ==
    /\ LastKind \in DisputeKinds
    /\ ~IsSome(pre_entry)
    /\ last_effect = None
    /\ IsSome(pre_balance)
    /\ client_balance_map[LastClient] = pre_balance
    /\ \A a \in ClientIds : ~IsSome(tx_map[<<a, Unwrap(last_tx).tx_id>>])

\* The policy of the category of a row's outcome is Fail.
FailsPolicy(opts, res) ==
    \/ res.kind = "MissingRequiredField" /\ opts.on_missing_field = Fail
    \/ res.kind = "ContainsExcessiveFields" /\ opts.on_excessive_field = Fail
    \/ res.kind = "Failed" /\ opts.on_parse_error = Fail

\* The outcome of the k-th row given to deserialize_row.
Outcome(k) == deserialize_row(parse_options, dispatched[k])

\* C15: a row whose outcome is MissingRequiredField, ContainsExcessiveFields
\* or Failed under a policy of Fail aborts the run at that row: it is the
\* last row given to the parser and no table is returned, for a terminated
\* row and for the final unterminated one.
C15_FailPolicyAborts ==
    \A k \in 1..Len(dispatched) :
        FailsPolicy(parse_options, Outcome(k))
        => (k = Len(dispatched) /\ phase = "aborted")

\* the abort on the final unterminated row, after a row that was applied
C15_Witness ==
    /\ phase = "aborted"
    /\ reads = 1
    /\ offset = Len(input)
    /\ input[Len(input)] # NL
    /\ Len(dispatched) = 2
    /\ tail = dispatched[2]
    /\ Outcome(1).kind = "Parsed"
    /\ Outcome(2).kind = "ContainsExcessiveFields"
    /\ parse_options.on_excessive_field = Fail
    /\ IsSome(client_balance_map[1])

\* The record a row's outcome leaves to process_tx under the policies, if
\* any: a parsed record, or the record of a row with excess fields under
\* Allow.
EffectiveRecord(opts, res) ==
    IF res.kind = "Parsed" THEN res.zztx
    ELSE IF res.kind = "ContainsExcessiveFields" /\ opts.on_excessive_field = Allow
         THEN res.zztx
         ELSE None

\* process_tx on the effective records of the first k rows given to the
\* parser, from the empty map and table.
RECURSIVE Replay(_)
Replay(k) ==
    IF k = 0
    THEN [map |-> [key \in Keys |-> None],
          balances |-> [c \in ClientIds |-> None]]
    ELSE LET before == Replay(k - 1)
             rec == EffectiveRecord(parse_options, Outcome(k))
             r == process_tx(before.map, before.balances, Unwrap(rec))
         IN  IF IsSome(rec) THEN [map |-> r.map, balances |-> r.balances]
             ELSE before

\* C16: under Allow a row with excess fields is applied exactly as a row
\* that parsed to its record; under Ignore it is skipped, map and balances
\* unchanged: the map and the table are those of process_tx over the
\* effective records.
C16_ExcessAllowIgnore ==
    /\ phase = "running"
       => /\ tx_map = Replay(Len(dispatched)).map
          /\ client_balance_map = Replay(Len(dispatched)).balances
    /\ phase = "done"
       => /\ tx_map = Replay(Len(dispatched)).map
          /\ client_balance_map
               = compute_totals(Replay(Len(dispatched)).balances)

\* a dispute with a fifth field, applied under Allow: funds are held
C16_Witness ==
    /\ phase = "done"
    /\ parse_options.on_excessive_field = Allow
    /\ \E k \in 1..Len(dispatched) : Outcome(k).kind = "ContainsExcessiveFields"
    /\ IsSome(client_balance_map[1])
    /\ Unwrap(client_balance_map[1]).held # zero

\* The data rows of a text: its lines, without the header row when the
\* first line is one and without the empty piece after a final '\n'.
DataRows(opts, text) ==
    LET lines == split(text)
        from == IF deserialize_headers(opts, lines[1]) THEN 2 ELSE 1
        to == IF lines[Len(lines)] = <<>> THEN Len(lines) - 1 ELSE Len(lines)
    IN  {lines[k] : k \in from..to}

\* C17: a data row longer than max_line_width bytes always aborts the run,
\* whatever the policies and however the reads cut the row.  The code
\* measures the segments of a chunk one by one, so a long row cut by a read
\* into pieces that fit is not seen.
C17_OversizedRowAborts ==
    (\E row \in DataRows(parse_options, input) :
        Len(row) > parse_options.max_line_width)
    => phase # "done"

\* The rows R of an input made of the header row followed by R.
AfterHeader(text) ==
    IF Len(text) > Len(HeaderRow) THEN DropFirst(text, Len(HeaderRow) + 1)
    ELSE <<>>

\* C18: the run on the header row followed by rows R ends as the run on R
\* alone, with the same table or with an abort in both.  Checked on runs
\* that read the input in one chunk, the header row within max_line_width.
\* With R empty the code gives a row to
\* the parser that R alone does not hold: the header itself when no '\n'
\* follows it, the empty text when one does.
C18_HeaderTransparent ==
    (/\ phase \in {"done", "aborted"}
     /\ reads <= 1
     /\ offset = Len(input)
     /\ Len(HeaderRow) <= parse_options.max_line_width
     /\ StartsWith(input, HeaderRow)
     /\ Len(input) > Len(HeaderRow) => input[Len(HeaderRow) + 1] = NL)
    => LET alone == WholeRun(parse_options, AfterHeader(input))
       IN  IF alone.panic THEN phase = "aborted"
           ELSE phase = "done" /\ client_balance_map = alone.balances

\* C19: new(integer, fractional_units) is None for fractional units of
\* 10000 and above and Some, with the parts given, for 0..9999, for a
\* negative and for a non-negative integer part.
C19_NewRejectsTenThousand ==
    amt_op = "new"
    => IF amt_b.decimal \in 0..9999
       THEN amt_r = Some(ZzAmount(amt_b.integer, amt_b.decimal))
       ELSE amt_r = None

\* new called with exactly 10000
C19_Witness ==
    /\ amt_op = "new"
    /\ amt_b.decimal = 10000
    /\ amt_r = None

\* The decimal digits of an amount's integer part.
IntDigits(a) == Len(NatToStr(IF a.integer < 0 THEN 0 - a.integer ELSE a.integer))

\* The text of the amount, or the row of the record, parsed back to it.
RoundTripExact ==
    /\ amt_op \in {"parse_i", "parse_u"} => amt_r = Ok(amt_pre, <<>>)
    /\ amt_op = "row" => amt_r = Parsed(amt_b)

\* C20 as stated: every amount built by new parses back from its Display to
\* an equal amount, and a deposit or withdrawal record from its csv row to
\* an equal record.
C20_RoundTripAlways ==
    amt_op \in {"parse_i", "parse_u", "row"} => RoundTripExact

\* C20 amended: so does every amount whose integer part has at most
\* zz_amount_max_size digits; the parser fails on a longer one.
C20_RoundTripWithinSize ==
    amt_op \in {"parse_i", "parse_u", "row"}
    => IF IntDigits(amt_pre) <= parse_options.zz_amount_max_size
       THEN RoundTripExact
       ELSE amt_r = IF amt_op = "row" THEN Failed ELSE None

\* a negative amount with a fraction of one unit, from "-d.0001"
C20_Witness ==
    /\ amt_op = "parse_i"
    /\ amt_pre.integer < 0
    /\ amt_pre.decimal = 1
    /\ amt_r = Ok(amt_pre, <<>>)

\* C21: a row that lacks its type, client or tx column, or a deposit or
\* withdrawal row that lacks its amount, parses to MissingRequiredField;
\* a dispute, resolve or chargeback row that has its client and tx columns
\* and carries an amount parses to ContainsExcessiveFields of the record
\* of that row's type, client id and tx id, without an amount.
LacksRequired(f) ==
    \/ f.type = <<>>
    \/ f.client = <<>>
    \/ f.tx = <<>>
    \/ f.type \in {W_deposit, W_withdrawal} /\ f.amount = <<>>

CarriesExcess(f) ==
    /\ ~LacksRequired(f)
    /\ f.type \in {W_dispute, W_resolve, W_chargeback}
    /\ f.amount # <<>>

RecordOf(f) ==
    ZzTx([kind |-> discriminant(f.type)], DigitsToNat(f.client),
         DigitsToNat(f.tx))

Locked(balances, c) == IsSome(balances[c]) /\ Unwrap(balances[c]).locked

C22_LockedOnlyByChargeback ==
    [][\A c \in ClientIds :
         /\ Locked(client_balance_map, c) => Locked(client_balance_map', c)
         /\ (~Locked(client_balance_map, c) /\ Locked(client_balance_map', c))
            => /\ rows' = rows + 1
               /\ Unwrap(last_tx').type = Chargeback
               /\ Unwrap(last_tx').client_id = c
               /\ IsSome(tx_map[<<c, Unwrap(last_tx').tx_id>>])
               /\ Unwrap(tx_map[<<c, Unwrap(last_tx').tx_id>>]).kind = "Dispute"
               /\ IsSome(last_effect')
      ]_vars

\* An account locked by a Chargeback is still locked after a later record
\* of another account has been applied.
C22_Witness ==
    /\ LastKind = "Deposit"
    /\ IsSome(last_effect)
    /\ \E c \in ClientIds :
          /\ c # LastClient
          /\ Locked(client_balance_map, c)
          /\ \E t \in TxIds : tx_map[<<c, t>>] = Some(StLocked)

\* C23: an account has a row in the table iff a record addressed to it has
\* produced an effect: no account has a row at the start, a row once made
\* is kept, and a step makes the row of an account exactly when it processes
\* a record of that account that produces an effect; a rejected record, such
\* as a withdrawal from an account never seen, makes no row.
HasRow(balances, c) == IsSome(balances[c])

C23_RowIffEffect ==
    /\ \A c \in ClientIds : ~HasRow(client_balance_map, c)
    /\ [][\A c \in ClientIds :
            /\ HasRow(client_balance_map, c) => HasRow(client_balance_map', c)
            /\ ~HasRow(client_balance_map, c)
               => (HasRow(client_balance_map', c)
                   <=> /\ rows' = rows + 1
                       /\ Unwrap(last_tx').client_id = c
                       /\ IsSome(last_effect'))
         ]_vars

\* A withdrawal from an account never seen has been rejected and the
\* account has no row, while the other account has one.
C23_Witness ==
    /\ LastKind = "Withdrawal"
    /\ last_effect = None
    /\ ~HasRow(client_balance_map, LastClient)
    /\ \E c \in ClientIds : HasRow(client_balance_map, c)

\* C24: processing a record of account A changes no other account's balance
\* and no ledger entry keyed by another account.
C24_OtherAccountsUntouched ==
    [][rows' = rows + 1
       => \A c \in ClientIds \ {Unwrap(last_tx').client_id} :
            /\ client_balance_map'[c] = client_balance_map[c]
            /\ \A t \in TxIds : tx_map'[<<c, t>>] = tx_map[<<c, t>>]
      ]_vars

\* A record of one account has been applied while another account holds a
\* balance and an entry under the same transaction id.
C24_Witness ==
    /\ IsSome(last_effect)
    /\ phase = "running"
    /\ \E c \in ClientIds :
          /\ c # LastClient
          /\ HasRow(client_balance_map, c)
          /\ IsSome(tx_map[<<c, Unwrap(last_tx).tx_id>>])

\* C25: every row given to the row parser inside the chunk loop is a
\* complete logical row of the input: the first segment of a chunk is given
\* joined with the tail, and a chunk without a row terminator gives nothing.
\* The code gives the segments of each chunk as they are cut by the reads.
C25_LoopRowsComplete ==
    phase = "running"
    => \A k \in 1..Len(dispatched) : dispatched[k] \in Range(split(input))

\* C26: after each chunk the tail buffer equals the unterminated remainder
\* of the input read so far, what follows its last row terminator, and is
\* never longer than max_line_width.  The code replaces the tail by the
\* last segment of the chunk alone.
Remainder(text) == split(text)[Len(split(text))]

C26_TailIsRemainder ==
    (phase = "running" /\ reads > 0)
    => /\ tail = Remainder(SubSeq(input, 1, offset))
       /\ Len(tail) <= parse_options.max_line_width

\* C27: for a signed amount a and a non-negative amount b, after a.sub(b)
\* the value of a is its previous value minus the value of b, and after
\* a.add(b) its previous value plus the value of b, the value being the
\* one Display renders (the fraction counted away from zero under a
\* negative integer part).  sub and add keep the fraction as a positive
\* offset above the integer part instead.
C27_SubAddExact ==
    (amt_op \in {"add", "sub"} /\ amt_b.integer >= 0)
    => Val(amt_a) = IF amt_op = "add" THEN Val(amt_pre) + Val(amt_b)
                    ELSE Val(amt_pre) - Val(amt_b)

\* C28: for a key that holds an entry, a record produces an effect exactly
\* when the entry and the record are (Deposit, Dispute), (Dispute, Resolve)
\* or (Dispute, Chargeback); a record of any other pair produces no effect
\* and leaves the entry, the map and every balance as they were.
EffectPairs ==
    {<<"Deposit", "Dispute">>, <<"Dispute", "Resolve">>,
     <<"Dispute", "Chargeback">>}

C28_OnlyThreePairs ==
    [][(/\ rows' = rows + 1
        /\ IsSome(tx_map[<<Unwrap(last_tx').client_id, Unwrap(last_tx').tx_id>>]))
       => /\ IsSome(last_effect')
             <=> <<Unwrap(pre_entry').kind, Unwrap(last_tx').type.kind>>
                   \in EffectPairs
          /\ ~IsSome(last_effect')
             => /\ tx_map' = tx_map
                /\ client_balance_map' = client_balance_map
                /\ phase' = phase
      ]_vars

\* A Dispute of a key that holds a Withdrawal has produced no effect.
C28_Witness ==
    /\ LastKind = "Dispute"
    /\ IsSome(pre_entry)
    /\ Unwrap(pre_entry).kind = "Withdrawal"
    /\ last_effect = None
    /\ tx_map[LastKey] = Some(StWithdrawal)

\* C29: a Withdrawal that is rejected leaves the map and every balance as
\* they were and makes no entry under its key, so that a later record of
\* the same key finds the key as never seen.
C29_RejectedWithdrawalNoTrace ==
    [][(/\ rows' = rows + 1
        /\ Unwrap(last_tx').type.kind = "Withdrawal"
        /\ ~IsSome(last_effect'))
       => /\ tx_map' = tx_map
          /\ client_balance_map' = client_balance_map
          /\ phase' = phase
          /\ ~IsSome(pre_entry')
             => ~IsSome(tx_map'[<<Unwrap(last_tx').client_id,
                                  Unwrap(last_tx').tx_id>>])
      ]_vars

\* A Withdrawal from an account that holds less has been rejected, its key
\* still without an entry.
C29_Witness ==
    /\ LastKind = "Withdrawal"
    /\ last_effect = None
    /\ IsSome(pre_balance)
    /\ Val(Unwrap(pre_balance).available) < Val(Unwrap(last_tx).type.amount)
    /\ ~IsSome(pre_entry)
    /\ ~IsSome(tx_map[LastKey])

\* C30: a row whose outcome is MissingRequiredField, or Failed, is skipped
\* when the policy of its own category is Allow or Ignore, whatever the
\* other two policies are: the run goes on, and the map and the balances
\* after the row are those before it; under Fail of its own category, and
\* only then, the run aborts at the row.
AbortedAt(k) == k = Len(dispatched) /\ phase = "aborted"

OwnPolicy(opts, res) ==
    IF res.kind = "MissingRequiredField" THEN opts.on_missing_field
    ELSE opts.on_parse_error

C30_SkippedByOwnPolicy ==
    \A k \in 1..Len(dispatched) :
        Outcome(k).kind \in {"MissingRequiredField", "Failed"}
        => /\ AbortedAt(k) <=> OwnPolicy(parse_options, Outcome(k)) = Fail
           /\ (k = Len(dispatched) /\ phase = "running")
              => /\ tx_map = Replay(k - 1).map
                 /\ client_balance_map = Replay(k - 1).balances

\* A row with a missing field skipped under on_missing_field = Allow while
\* on_parse_error and on_excessive_field are Fail, and the deposit that
\* follows it applied.
C30_Witness ==
    /\ phase = "done"
    /\ parse_options.on_missing_field = Allow
    /\ parse_options.on_parse_error = Fail
    /\ parse_options.on_excessive_field = Fail
    /\ Len(dispatched) = 2
    /\ Outcome(1).kind = "MissingRequiredField"
    /\ Outcome(2).kind = "Parsed"
    /\ IsSome(client_balance_map[1])

\* C31: a non-empty unterminated final row is dispatched once, after the
\* terminated rows and by the same policies, so that an input ends the same
\* way with and without a row terminator after its last row: the finished
\* run on an input whose last row is not empty has the table, the map and
\* the abort of the run on the same input with that terminator added or
\* taken away.  It does on runs that read the input in one chunk; when
\* the reads cut the last row, the row without a terminator is joined in
\* the tail and dispatched whole, the row with one is dispatched in pieces.
WithoutFinalNL(text) ==
    IF text # <<>> /\ text[Len(text)] = NL THEN SubSeq(text, 1, Len(text) - 1)
    ELSE text

OtherEnding(text) ==
    IF text # <<>> /\ text[Len(text)] = NL THEN WithoutFinalNL(text)
    ELSE text \o <<NL>>

LastRowNotEmpty(text) == Remainder(WithoutFinalNL(text)) # <<>>

C31_FinalRowSameOutcome ==
    (/\ phase \in {"done", "aborted"}
     /\ offset = Len(input)
     /\ LastRowNotEmpty(input))
    => LET other == WholeRun(parse_options, OtherEnding(input))
       IN  IF other.panic THEN phase = "aborted"
           ELSE /\ phase = "done"
                /\ tx_map = other.map
                /\ client_balance_map = other.balances

\* C32 as stated: new(integer, fractional_units) fails only above 10000
\* fractional units, exactly 10000 being accepted.
C32_NewAcceptsTenThousand ==
    amt_op = "new" => (amt_r = None <=> amt_b.decimal > 10000)

\* C32 amended: new fails exactly from 10000 fractional units on; exactly
\* 10000 is rejected and 9999 is the largest value accepted.
C32_NewFailsFromTenThousand ==
    amt_op = "new" => (amt_r = None <=> amt_b.decimal >= 10000)

\* new called with exactly 10000 under a negative integer part
C32_Witness ==
    /\ amt_op = "new"
    /\ amt_b.decimal = 10000
    /\ amt_b.integer < 0
    /\ amt_r = None

\* The result of the parse of an amount text: the amount when the whole
\* text was taken.
ParsedText(r) == IF IsSome(r) /\ Unwrap(r).rest = <<>> THEN Some(Unwrap(r).val) ELSE None

ShortFraction == Len(amt_b.frac) \in 1..3

\* C33 as stated: fewer than 4 fractional digits are taken as they are as
\* the count of fractional units, a fraction '1' being 1 unit.
C33_ShortFractionAsIs ==
    (amt_op \in {"text_u", "text_i"} /\ IsSome(amt_r) /\ ShortFraction)
    => Unwrap(amt_r).val.decimal = DigitsToNat(amt_b.frac)

\* C33 amended: fewer than 4 fractional digits are padded with zeros on
\* the right to 4 digits before they are read: the text parses to the
\* amount of the text with those zeros written, a fraction '1' being 1000
\* units.
ZeroPadded(frac) == frac \o [k \in 1..(4 - Len(frac)) |-> "0"]

C33_ShortFractionPadded ==
    (amt_op \in {"text_u", "text_i"} /\ ShortFraction)
    => /\ amt_r = (IF amt_op = "text_u"
                   THEN parse_zzamount_u(parse_options,
                            AmountText(amt_b.sign, amt_b.int,
                                       ZeroPadded(amt_b.frac)))
                   ELSE parse_zzamount_i(parse_options,
                            AmountText(amt_b.sign, amt_b.int,
                                       ZeroPadded(amt_b.frac))))
       /\ (IsSome(amt_r) /\ amt_b.frac = <<"1">>)
          => Unwrap(amt_r).val.decimal = 1000

\* the text 1.1 parsed to 1 and 1000 units
C33_Witness ==
    /\ amt_op = "text_u"
    /\ amt_b.frac = <<"1">>
    /\ amt_b.int = <<"1">>
    /\ ParsedText(amt_r) = Some(ZzAmount(1, 1000))

\* C34: a fraction of k < 4 digits d is scaled by its decimal position and
\* denotes d * 10^(4-k) fractional units; the texts 0.1, 0.01, 0.001 and
\* 0.0001 parse to new(0, 1000), new(0, 100), new(0, 10) and new(0, 1).
Pow10(n) == IF n = 0 THEN 1 ELSE IF n = 1 THEN 10 ELSE IF n = 2 THEN 100 ELSE 1000

PositionCases ==
    {<<<<"1">>, 1000>>, <<<<"0", "1">>, 100>>, <<<<"0", "0", "1">>, 10>>,
     <<<<"0", "0", "0", "1">>, 1>>}

C34_FractionScaledByPosition ==
    (amt_op \in {"text_u", "text_i"} /\ IsSome(amt_r))
    => /\ ShortFraction
          => Unwrap(amt_r).val.decimal
               = DigitsToNat(amt_b.frac) * Pow10(4 - Len(amt_b.frac))
       /\ \A c \in PositionCases :
            (amt_b.sign = <<>> /\ amt_b.int = <<"0">> /\ amt_b.frac = c[1])
            => ParsedText(amt_r) = new(0, c[2])

\* the text 0.01 parsed to 100 units
C34_Witness ==
    /\ amt_op = "text_u"
    /\ input = <<"0", ".", "0", "1">>
    /\ ParsedText(amt_r) = new(0, 100)

\* C35: fractional digits after the fourth are dropped without rounding:
\* an amount text parses to the amount of the same text with its fraction
\* cut to its first 4 digits, the integer part as written; .99999 gives
\* 9999 units.
CutFraction(frac) == IF Len(frac) > 4 THEN SubSeq(frac, 1, 4) ELSE frac

C35_FractionTruncated ==
    amt_op \in {"text_u", "text_i"}
    => /\ ParsedText(amt_r)
            = ParsedText(IF amt_op = "text_u"
                         THEN parse_zzamount_u(parse_options,
                                  AmountText(amt_b.sign, amt_b.int,
                                             CutFraction(amt_b.frac)))
                         ELSE parse_zzamount_i(parse_options,
                                  AmountText(amt_b.sign, amt_b.int,
                                             CutFraction(amt_b.frac))))
       /\ (IsSome(amt_r) /\ Len(amt_b.frac) > 4)
          => /\ Unwrap(amt_r).val.decimal = DigitsToNat(SubSeq(amt_b.frac, 1, 4))
             /\ Unwrap(amt_r).val.integer
                  = (IF amt_b.sign = <<"-">> THEN 0 - DigitsToNat(amt_b.int)
                     ELSE DigitsToNat(amt_b.int))

\* the text -12.99999 parsed to -12 and 9999 units
C35_Witness ==
    /\ amt_op = "text_i"
    /\ amt_b.sign = <<"-">>
    /\ amt_b.int = <<"1", "2">>
    /\ amt_b.frac = <<"9", "9", "9", "9", "9">>
    /\ ParsedText(amt_r) = Some(ZzAmount(0 - 12, 9999))

\* C36: the map starts without entries; an entry appears under a key
\* exactly in a step where a Deposit or Withdrawal of that key produced an
\* effect; an entry is never removed; and the state of an entry changes
\* only in a step of its key that produced an effect.
C36_EntryLifecycle ==
    /\ \A key \in Keys : ~IsSome(tx_map[key])
    /\ [][\A key \in Keys :
            /\ IsSome(tx_map[key]) => IsSome(tx_map'[key])
            /\ ~IsSome(tx_map[key])
               => (IsSome(tx_map'[key])
                   <=> /\ rows' = rows + 1
                       /\ <<Unwrap(last_tx').client_id, Unwrap(last_tx').tx_id>> = key
                       /\ Unwrap(last_tx').type.kind \in {"Deposit", "Withdrawal"}
                       /\ IsSome(last_effect'))
            /\ tx_map'[key] # tx_map[key]
               => /\ rows' = rows + 1
                  /\ <<Unwrap(last_tx').client_id, Unwrap(last_tx').tx_id>> = key
                  /\ IsSome(last_effect')
         ]_vars

\* An entry closed by a Chargeback is still in the map, next to the entry
\* of a Withdrawal.
C36_Witness ==
    /\ \E t \in TxIds : tx_map[<<1, t>>] = Some(StLocked)
    /\ \E t \in TxIds : tx_map[<<1, t>>] = Some(StWithdrawal)
    /\ LastKind = "Chargeback"
    /\ IsSome(last_effect)

\* C37: total is computed once, at the return of the table, after every
\* row has been dispatched, the final unterminated one included: while the
\* run has not returned, total is zero in every row of the table whatever
\* effects were applied; in the returned table total is available + held
\* as compute_total adds them, the whole input has been read and a tail
\* left by the loop has been dispatched.
C37_TotalOnlyAtReturn ==
    /\ phase # "done"
       => \A c \in ClientIds :
            HasRow(client_balance_map, c)
            => Unwrap(client_balance_map[c]).total = zero
    /\ phase = "done"
       => /\ \A c \in ClientIds :
               HasRow(client_balance_map, c)
               => Unwrap(client_balance_map[c]).total
                    = add(Unwrap(client_balance_map[c]).available,
                          Unwrap(client_balance_map[c]).held)
          /\ offset = Len(input)
          /\ tail # <<>>
             => /\ dispatched # <<>>
                /\ dispatched[Len(dispatched)] = tail

\* The table returned after a final unterminated deposit row, with a total
\* that is not zero.
C37_Witness ==
    /\ phase = "done"
    /\ tail # <<>>
    /\ Outcome(Len(dispatched)).kind = "Parsed"
    /\ HasRow(client_balance_map, 1)
    /\ Unwrap(client_balance_map[1]).total # zero

\* C38: in every state of a run that has not aborted, the held of each
\* account is the sum of the amounts of its entries that are Disputed, so
\* held is never negative and is zero when the account has no open dispute.
DisputedOf(c) ==
    {t \in TxIds : /\ IsSome(tx_map[<<c, t>>])
                   /\ Unwrap(tx_map[<<c, t>>]).kind = "Dispute"}

RECURSIVE DisputedSum(_, _)
DisputedSum(c, ts) ==
    IF ts = {} THEN 0
    ELSE LET t == CHOOSE x \in ts : TRUE
         IN  Val(Unwrap(tx_map[<<c, t>>]).amount) + DisputedSum(c, ts \ {t})

HeldOf(c) ==
    IF HasRow(client_balance_map, c) THEN Unwrap(client_balance_map[c]).held
    ELSE zero

C38_HeldIsDisputedSum ==
    phase # "aborted"
    => \A c \in ClientIds :
         /\ Val(HeldOf(c)) = DisputedSum(c, DisputedOf(c))
         /\ HeldOf(c).integer >= 0
         /\ DisputedOf(c) = {} => HeldOf(c) = zero

\* Two deposits of an account are disputed and held is their sum.
C38_Witness ==
    /\ phase = "running"
    /\ Cardinality(DisputedOf(1)) = 2
    /\ Val(HeldOf(1)) = 20000

\* C39: through add and sub on amounts whose fractional units started in
\* 0..9999, the fractional units stay in 0..9999 and no step of add or sub
\* leaves the range of an unsigned 32-bit integer: the sum in add, and in
\* sub the difference, or 10000 - other and the sum with it when it
\* borrows.  The steps are held to 0..19999, inside the 32 bits.
StepRange == 0..19999

AddSteps(a, b) == {a.decimal + b.decimal}

SubSteps(a, b) ==
    IF a.decimal < b.decimal
    THEN {10000 - b.decimal, a.decimal + (10000 - b.decimal)}
    ELSE {a.decimal - b.decimal}

C39_FractionStaysInRange ==
    /\ amt_a.decimal \in 0..9999
    /\ amt_op = "add" => AddSteps(amt_pre, amt_b) \subseteq StepRange
    /\ amt_op = "sub" => SubSteps(amt_pre, amt_b) \subseteq StepRange

\* a sub that borrows after an add that carried
C39_Witness ==
    /\ amt_op = "sub"
    /\ amt_pre.decimal < amt_b.decimal
    /\ IsSome(amt_prev)
    /\ Unwrap(amt_prev).op = "add"
    /\ Unwrap(amt_prev).pre.decimal + Unwrap(amt_prev).b.decimal >= 10000
    /\ amt_a.decimal \in 0..9999

\* C40: on every input the run ends, with the table returned or with an
\* abort.  Each read starts where the bytes read so far end and returns
\* bytes that follow them, so the offset grows with every read that
\* returns bytes, whatever its size, and never passes the end of the
\* input; the loop ends only on the read at the end of the input, every
\* byte having been read, and the table returned then holds the totals.
C40_RunEnds ==
    /\ <>(phase \in {"done", "aborted"})
    /\ [](offset <= Len(input))
    /\ [][/\ reads' = reads + 1
             => (offset' > offset /\ offset' <= Len(input) /\ phase # "done")
          /\ reads' = reads => offset' = offset
          /\ (phase = "running" /\ phase' = "done")
             => /\ offset = Len(input)
                /\ reads' = reads
                /\ client_balance_map' = compute_totals(client_balance_map')
       ]_vars

\* The table returned after two reads and the drain of a final
\* unterminated row.
C40_Witness ==
    /\ phase = "done"
    /\ reads = 2
    /\ offset = Len(input)
    /\ tail # <<>>
    /\ dispatched # <<>>
    /\ dispatched[Len(dispatched)] = tail

====
